---- MODULE Spec2Model ----
(***************************************************************************)
(* Model of huskki: the event hub (hub.EventHub), the binary frame decoder *)
(* (readOneFrame / readBinary), the firmware frame encoder (sendFrame) and *)
(* the sensor interpreter (BroadcastParsedSensorData).                     *)
(***************************************************************************)
EXTENDS Integers, Sequences, FiniteSets, TLC

(***************************************************************************)
(* Bounds of the model.                                                    *)
(***************************************************************************)
MaxBroadcasts == 3     \* Broadcast calls of the hub clients explored under Spec
MaxFullBroadcasts == 18 \* Broadcast calls explored under SpecFull
MaxSamples == 2        \* calls of the interpreter explored under SpecInterpret
MaxPasses == 2         \* calls of playOnce made by run
MaxUnits == 2          \* pieces of the byte stream explored under SpecDecode
MaxLines == 3          \* lines read by readScanner under SpecText
MaxWebBroadcasts == 3  \* Broadcast calls of the producer under SpecWeb

(***************************************************************************)
(* Program constants.                                                      *)
(***************************************************************************)
MailboxCap == 16       \* make(chan map[string]any, 16)
WRITE_EVERY_N_FRAMES == 100
RPM_DID == 256         \* 0x0100
THROTTLE_DID == 1      \* 0x0001
GRIP_DID == 112        \* 0x0070
TPS_DID == 118         \* 0x0076
COOLANT_DID == 9       \* 0x0009
COOLANT_OFFSET == -40


EmptyMap == [k \in {} |-> 0]

\* the subscription ids explored: two Subscribe calls
SubIds == {0, 1}

\* the arguments the hub clients pass to Broadcast
Sigs == {EmptyMap, [rpm |-> 1], [tps |-> 1], [rpm |-> 2, tps |-> 2]}

\* the n-th argument of the producer that fills the mailboxes under SpecFull
RampKey(n) == IF n % 2 = 1 THEN "rpm" ELSE "tps"
RampSig(n) == [k \in {RampKey(n)} |-> n]

VARIABLES
    subs,       \* keys of EventHub.subs; the channel of id is chans[id]
    next,       \* EventHub.next
    last,       \* EventHub.last, the Snapshot
    chans,      \* every channel made by Subscribe: [buf, closed]
    panicked,   \* a send on a closed channel or a second close happened
    bhist,      \* the arguments of the Broadcasts made so far, in order
    subAt,      \* for each id, Len(bhist) when its Subscribe ran
    recv,       \* for each id, what a receiver has taken from its channel
    sawClosed,  \* for each id, whether a receiver saw the channel closed
    again,      \* for each id, whether its cancel was called once more after
                \* it had run
    units,      \* the pieces the byte stream was put together from
    input,      \* the bytes of the io.Reader that readBinary reads
    pos,        \* the next byte of input the bufio.Reader returns, from 1
    calls,      \* what every readOneFrame call so far returned, in order
    rawOn,      \* raw != nil
    rawLog,     \* the bytes written to the raw writer
    rawCount,   \* frames, the count of successful raw writes
    rawFlushed, \* how many bytes of rawLog the last Flush wrote out
    rawErr,     \* the raw writer has failed; a bufio.Writer keeps its error
    now,        \* time.Now().UnixMilli()
    rbDone,     \* readBinary has returned, or was never started
    handed,     \* the arguments of every BroadcastParsedSensorData call so
                \* far, in order
    flags,      \* the ReplayFlags of the replayer: Speed, Loop, SkipFrames
    rp,         \* the replayer: where run is, the locals of playOnce, what
                \* every playOnce call returned and what was slept
    lines,      \* the lines the bufio.Scanner of readScanner returns
    lineNo,     \* the next line scanner.Scan() returns, from 1
    ctx,        \* for each EventsHandler, whether r.Context() is done
    hpc,        \* for each EventsHandler, "serving" (in its loop),
                \* "returning" (it left the loop) or "returned" (it has
                \* returned and its deferred cancel ran)
    calc,       \* a call of a function on its own (the CRC functions, the
                \* interpreters): its arguments and, once made, its results
    fastIndex,      \* firmware: the index loop polls next in FAST_DIDS
    loggedOnceFast, \* firmware: per index, a frame was sent for it
    lastChkFast,    \* firmware: per index, the checksum of the payload sent
    lastLenFast,    \* firmware: per index, the length of the payload sent
    serial,         \* firmware: the frames written to Serial, in order
    polls,          \* firmware: every readDID that returned a payload: the
                    \* index, the payload and whether pollOne sent a frame
    millis,         \* firmware: what millis() returns
    rpmHistoryLabels, \* charts: the package variables of that name
    rpmHistoryData,
    tpsHistoryLabels,
    tpsHistoryData,
    ppc,        \* charts: where broadcastParsedSensorData is, and its locals
    ipc,        \* charts: where the index handler is, and what it has read
    svg         \* charts: the arguments and outcome of every generateSVG call

hubVars == <<subs, next, last, chans, panicked,
             bhist, subAt, recv, sawClosed, again>>

decVars == <<units, input, pos, calls, rawOn, rawLog,
             rawCount, rawFlushed, rawErr, now, rbDone, handed, flags, rp>>

textVars == <<lines, lineNo>>

webVars == <<ctx, hpc>>

\* everything but the hub
crcVars == <<calc>>

fwVars == <<fastIndex, loggedOnceFast, lastChkFast, lastLenFast, serial,
            polls, millis>>

chartVars == <<rpmHistoryLabels, rpmHistoryData, tpsHistoryLabels,
               tpsHistoryData, ppc, ipc, svg>>

restVars == <<decVars, textVars, webVars, crcVars, fwVars, chartVars>>

vars == <<hubVars, decVars, textVars, webVars, crcVars, fwVars, chartVars>>

(***************************************************************************)
(* EventHub.  Subscribe, the cancel closure and Broadcast each run from    *)
(* h.mu.Lock() to h.mu.Unlock() on the one mutex of the hub, so each is    *)
(* one action.  A receive on a channel takes no lock and is its own        *)
(* action.                                                                 *)
(***************************************************************************)

\* EventHub.copy: a new map with the keys and values of m
Copy(m) == [k \in DOMAIN m |-> m[k]]

\* a merge that replaces the Snapshot by the update
MergeReplaces(l, s) == s

\* a merge that keeps the value a name already has
MergeKeepsOld(l, s) == [k \in (DOMAIN l) \cup (DOMAIN s) |->
                           IF k \in DOMAIN l THEN l[k] ELSE s[k]]

\* for k, v := range sig { h.last[k] = v }
Merge(l, s) == [k \in (DOMAIN l) \cup (DOMAIN s) |->
                   IF k \in DOMAIN s THEN s[k] ELSE l[k]]

\* an item of a mailbox: the map, tagged with the number of the Broadcast
\* that sent it (0 for the snapshot sent by Subscribe)
Item(m, n) == [m |-> Copy(m), seq |-> n]

\* a send that makes room in a full mailbox by dropping its oldest item
TrySendDropsOldest(ch, it) ==
    IF Len(ch.buf) < MailboxCap
    THEN [ch EXCEPT !.buf = Append(@, it)]
    ELSE [ch EXCEPT !.buf = Append(Tail(@), it)]

\* a send that puts the item at the front of the mailbox
TrySendInFront(ch, it) ==
    IF Len(ch.buf) < MailboxCap
    THEN [ch EXCEPT !.buf = <<it>> \o @]
    ELSE ch

\* a send that appends whether or not the mailbox has room
TrySendUnbounded(ch, it) == [ch EXCEPT !.buf = Append(@, it)]

\* select { case ch <- v: default: } on an open channel
TrySend(ch, it) ==
    IF Len(ch.buf) < MailboxCap
    THEN [ch EXCEPT !.buf = Append(@, it)]
    ELSE ch

\* NewHub
NewHub ==
    /\ subs = {}
    /\ next = 0
    /\ last = EmptyMap
    /\ chans = EmptyMap
    /\ panicked = FALSE
    /\ bhist = <<>>
    /\ subAt = EmptyMap
    /\ recv = EmptyMap
    /\ sawClosed = EmptyMap
    /\ again = EmptyMap

\* a Subscribe that sends no snapshot
NewChanEmpty(l) == [buf |-> <<>>, closed |-> FALSE]

\* a Subscribe whose snapshot misses the names of the latest Broadcast
NewChanStale(l) ==
    LET old == IF bhist = <<>> THEN l
               ELSE [k \in (DOMAIN l) \ (DOMAIN bhist[Len(bhist)]) |-> l[k]]
    IN  [buf |-> IF DOMAIN old # {} THEN <<Item(old, 0)>> ELSE <<>>,
         closed |-> FALSE]

\* the channel Subscribe makes and what it holds when Subscribe returns
NewChan(l) ==
    [buf |-> IF DOMAIN l # {} THEN <<Item(l, 0)>> ELSE <<>>, closed |-> FALSE]

\* Subscribe
Subscribe ==
    /\ ~panicked
    /\ LET id == next IN
        /\ next' = next + 1
        /\ chans' = (id :> NewChan(last)) @@ chans
        /\ subs' = subs \cup {id}
        /\ subAt' = (id :> Len(bhist)) @@ subAt
        /\ recv' = (id :> <<>>) @@ recv
        /\ sawClosed' = (id :> FALSE) @@ sawClosed
        /\ again' = (id :> FALSE) @@ again
    /\ UNCHANGED <<last, panicked, bhist>>

\* a Broadcast whose sends are plain ch <- v: it completes only when every
\* subscriber's mailbox has room
BroadcastBlocks(s) ==
    /\ ~panicked
    /\ \A id \in subs : Len(chans[id].buf) < MailboxCap
    /\ last' = Merge(last, s)
    /\ bhist' = Append(bhist, s)
    /\ IF \E id \in subs : chans[id].closed
       THEN panicked' = TRUE /\ chans' = chans
       ELSE /\ panicked' = panicked
            /\ chans' = [id \in DOMAIN chans |->
                            IF id \in subs
                            THEN TrySend(chans[id], Item(s, Len(bhist) + 1))
                            ELSE chans[id]]
    /\ UNCHANGED <<subs, next, subAt, recv, sawClosed, again>>

\* a Broadcast that sends the merged Snapshot instead of its argument
BroadcastSendsSnapshot(s) ==
    /\ ~panicked
    /\ last' = Merge(last, s)
    /\ bhist' = Append(bhist, s)
    /\ IF \E id \in subs : chans[id].closed
       THEN panicked' = TRUE /\ chans' = chans
       ELSE /\ panicked' = panicked
            /\ chans' = [id \in DOMAIN chans |->
                            IF id \in subs
                            THEN TrySend(chans[id],
                                         Item(Merge(last, s), Len(bhist) + 1))
                            ELSE chans[id]]
    /\ UNCHANGED <<subs, next, subAt, recv, sawClosed, again>>

\* Broadcast(s): the merge into h.last, then the non-blocking sends; a
\* send on a closed channel panics
Broadcast(s) ==
    /\ ~panicked
    /\ last' = Merge(last, s)
    /\ bhist' = Append(bhist, s)
    /\ IF \E id \in subs : chans[id].closed
       THEN panicked' = TRUE /\ chans' = chans
       ELSE /\ panicked' = panicked
            /\ chans' = [id \in DOMAIN chans |->
                            IF id \in subs
                            THEN TrySend(chans[id], Item(s, Len(bhist) + 1))
                            ELSE chans[id]]
    /\ UNCHANGED <<subs, next, subAt, recv, sawClosed, again>>

\* a cancel that does not look whether the id is still subscribed
CancelFindsAlways(id) == TRUE

\* if c, ok := h.subs[id]; ok
CancelFinds(id) == id \in subs

\* a cancel that removes the id from h.subs and leaves the channel open
CancelForgets(id) ==
    /\ ~panicked
    /\ id \in DOMAIN chans
    /\ subs' = subs \ {id}
    /\ again' = [again EXCEPT ![id] = @ \/ chans[id].closed]
    /\ UNCHANGED <<next, last, chans, panicked, bhist, subAt, recv,
                   sawClosed>>

\* a cancel that closes the channel and leaves it in h.subs
CancelKeepsSub(id) ==
    /\ ~panicked
    /\ id \in DOMAIN chans
    /\ IF CancelFinds(id)
       THEN /\ subs' = subs
            /\ IF chans[id].closed
               THEN panicked' = TRUE /\ chans' = chans
               ELSE /\ panicked' = panicked
                    /\ chans' = [chans EXCEPT ![id].closed = TRUE]
       ELSE UNCHANGED <<subs, chans, panicked>>
    /\ again' = [again EXCEPT ![id] = @ \/ chans[id].closed]
    /\ UNCHANGED <<next, last, bhist, subAt, recv, sawClosed>>

\* the cancel closure of subscription id: close and delete when the id is
\* still subscribed; closing a closed channel panics.  Any goroutine may
\* call it, any number of times, once Subscribe has returned it.
Cancel(id) ==
    /\ ~panicked
    /\ id \in DOMAIN chans
    /\ IF CancelFinds(id)
       THEN /\ subs' = subs \ {id}
            /\ IF chans[id].closed
               THEN panicked' = TRUE /\ chans' = chans
               ELSE /\ panicked' = panicked
                    /\ chans' = [chans EXCEPT ![id].closed = TRUE]
       ELSE UNCHANGED <<subs, chans, panicked>>
    /\ again' = [again EXCEPT ![id] = @ \/ chans[id].closed]
    /\ UNCHANGED <<next, last, bhist, subAt, recv, sawClosed>>

\* a receiver takes the next item of a mailbox: event := <-ch
Receive(id) ==
    /\ ~panicked
    /\ id \in DOMAIN chans
    /\ chans[id].buf # <<>>
    /\ recv' = [recv EXCEPT ![id] = Append(@, Head(chans[id].buf))]
    /\ chans' = [chans EXCEPT ![id].buf = Tail(@)]
    /\ UNCHANGED <<subs, next, last, panicked, bhist, subAt, sawClosed, again>>

\* a receive on an empty closed channel returns at once: the receiver
\* observes the closure
ReceiveClosed(id) ==
    /\ ~panicked
    /\ id \in DOMAIN chans
    /\ chans[id].buf = <<>>
    /\ chans[id].closed
    /\ ~sawClosed[id]
    /\ sawClosed' = [sawClosed EXCEPT ![id] = TRUE]
    /\ UNCHANGED <<subs, next, last, chans, panicked, bhist, subAt, recv, again>>

(***************************************************************************)
(* CRC-8 (polynomial 0x07, initial value 0x00) on bytes 0..255.            *)
(***************************************************************************)

\* a ^ b
RECURSIVE Xor(_, _)
Xor(a, b) ==
    IF a = 0 THEN b
    ELSE IF b = 0 THEN a
    ELSE (((a % 2) + (b % 2)) % 2) + 2 * Xor(a \div 2, b \div 2)

\* crc8Update: the iterations i..7 of its loop; crc is a byte, so crc << 1
\* drops the top bit
RECURSIVE crc8Loop(_, _)
crc8Loop(crc, i) ==
    IF i >= 8 THEN crc
    ELSE crc8Loop(IF crc >= 128
                  THEN Xor((crc * 2) % 256, 7)
                  ELSE (crc * 2) % 256, i + 1)

\* the loop of crc8Update for every byte it can start from, computed once
crc8Table == [x \in 0..255 |-> crc8Loop(x, 0)]

\* an update that forgets the checksum so far
crc8UpdateNoXor(crc, b) == crc8Table[b]

\* crc8Update(crc, b)
crc8Update(crc, b) == crc8Table[Xor(crc, b)]

\* the loop of crc8UpdateBuf over p[lo..hi], in that order: the bytes of
\* the first half, then those of the second
RECURSIVE crc8Range(_, _, _, _)
crc8Range(crc, p, lo, hi) ==
    IF lo > hi THEN crc
    ELSE IF lo = hi THEN crc8Update(crc, p[lo])
    ELSE LET mid == (lo + hi) \div 2
             c == crc8Range(crc, p, lo, mid)
         IN  \* c is a byte; the test has it computed before the second half
             IF c \notin 0..255 THEN c ELSE crc8Range(c, p, mid + 1, hi)

\* crc8UpdateBuf(crc, p)
crc8UpdateBuf(crc, p) == crc8Range(crc, p, 1, Len(p))

\* firmware crc8_ccitt_update: the iterations i..7 of its loop; crc << 1 is
\* computed as an int and cut to uint8_t by the assignment
RECURSIVE crc8_ccitt_loop(_, _)
crc8_ccitt_loop(crc, i) ==
    IF i >= 8 THEN crc
    ELSE crc8_ccitt_loop(IF crc >= 128
                         THEN Xor(crc * 2, 7) % 256
                         ELSE (crc * 2) % 256, i + 1)

\* the loop of crc8_ccitt_update for every byte it can start from,
\* computed once
crc8_ccitt_table == [x \in 0..255 |-> crc8_ccitt_loop(x, 0)]

\* firmware crc8_ccitt_update(crc, b)
crc8_ccitt_update(crc, b) == crc8_ccitt_table[Xor(crc, b)]

\* the loop of the firmware's crc8_ccitt_buf over p[lo..hi], in that order
RECURSIVE crc8_ccitt_range(_, _, _, _)
crc8_ccitt_range(crc, p, lo, hi) ==
    IF lo > hi THEN crc
    ELSE IF lo = hi THEN crc8_ccitt_update(crc, p[lo])
    ELSE LET mid == (lo + hi) \div 2
             c == crc8_ccitt_range(crc, p, lo, mid)
         IN  \* c is a uint8_t; the test has it computed before the second half
             IF c \notin 0..255 THEN c ELSE crc8_ccitt_range(c, p, mid + 1, hi)

\* firmware crc8_ccitt_buf(crc, p, n)
crc8_ccitt_buf(crc, p, n) == crc8_ccitt_range(crc, p, 1, n)

(***************************************************************************)
(* The firmware's sendFrame.                                               *)
(***************************************************************************)

\* A uint32 is kept as its two 16-bit halves, [hi, lo] for hi * 65536 + lo.
U32(hi, lo) == [hi |-> hi, lo |-> lo]

\* sendFrame: the 7 header bytes, with ms the value of millis()
sendHdr(ms, did, len) ==
    << ms.lo % 256, (ms.lo \div 256) % 256, ms.hi % 256,
       (ms.hi \div 256) % 256, (did \div 256) % 256, did % 256, len >>

\* sendFrame: the CRC over millis, DID, len and the payload
sendCrc(hdr, data, len) ==
    crc8_ccitt_buf(
        crc8_ccitt_update(
            crc8_ccitt_update(
                crc8_ccitt_update(crc8_ccitt_buf(0, hdr, 4), hdr[5]),
                hdr[6]),
            hdr[7]),
        data, len)

\* sendFrame(did, data, len) when millis() returns ms: the bytes written
sendFrame(ms, did, data, len) ==
    LET hdr == sendHdr(ms, did, len) IN
    <<170, 85>> \o hdr \o SubSeq(data, 1, len) \o <<sendCrc(hdr, data, len)>>

(***************************************************************************)
(* readOneFrame                                                            *)
(***************************************************************************)

\* the zero Frame
ZeroFrame == [Millis |-> U32(0, 0), DID |-> 0, Data |-> <<>>]

\* the positions from p on where s holds 0xAA
MagicStarts(s, p) == {q \in p..Len(s) : s[q] = 170}

\* the resync loop from byte p of s: the position after the magic AA 55,
\* or 0 when ReadByte reports io.EOF first. Bytes other than 0xAA are read
\* one at a time; the byte read after a 0xAA is consumed whatever it is.
RECURSIVE ScanMagic(_, _)
ScanMagic(s, p) ==
    IF MagicStarts(s, p) = {} THEN 0
    ELSE LET q == CHOOSE q \in MagicStarts(s, p) :
                      \A r \in MagicStarts(s, p) : q <= r
         IN  IF q + 1 > Len(s) THEN 0
             ELSE IF s[q + 1] = 85 THEN q + 2
             ELSE ScanMagic(s, q + 2)

\* io.ReadFull(br, buf) with len(buf) = n >= 1 from byte p of s
ReadFull(s, p, n) ==
    IF p + n - 1 <= Len(s)
    THEN [err |-> "nil", buf |-> SubSeq(s, p, p + n - 1), pos |-> p + n]
    ELSE [err |-> IF p > Len(s) THEN "EOF" ELSE "ErrUnexpectedEOF",
          buf |-> <<>>, pos |-> Len(s) + 1]

\* the CRC readOneFrame computes over hdr and data
frameCrc(hdr, data) ==
    crc8UpdateBuf(
        crc8Update(
            crc8Update(
                crc8Update(crc8UpdateBuf(0, SubSeq(hdr, 1, 4)), hdr[5]),
                hdr[6]),
            hdr[7]),
        data)

\* readOneFrame returns an error on a CRC mismatch: the return statement is
\* commented out, the if body is empty
BadCrcReturns == FALSE

\* a length test that lets 65 through
BadLenOffByOne(dl) == dl < 0 \/ dl > 65

\* hdr[6] > 64 (dl < 0 cannot happen, hdr[6] is a byte)
BadLen(dl) == dl < 0 \/ dl > 64

\* the timestamp read most significant byte first
ParseMillisBigEndian(hdr) ==
    U32(hdr[1] * 256 + hdr[2], hdr[3] * 256 + hdr[4])

\* the fields parsed from the header
ParseMillis(hdr) == U32(hdr[3] + hdr[4] * 256, hdr[1] + hdr[2] * 256)

ParseDID(hdr) == hdr[5] * 256 + hdr[6]

\* readOneFrame(br) with the reader at byte p of s: the error ("nil" for
\* none), the Frame, the reader's new position and where the magic began
readOneFrame(s, p) ==
    LET h == ScanMagic(s, p) IN
    IF h = 0
    THEN [err |-> "EOF", fr |-> ZeroFrame, pos |-> Len(s) + 1, from |-> 0]
    ELSE
    LET rh == ReadFull(s, h, 7) IN
    IF rh.err # "nil"
    THEN [err |-> rh.err, fr |-> ZeroFrame, pos |-> rh.pos, from |-> h - 2]
    ELSE
    LET hdr == rh.buf
        dl == hdr[7]
    IN
    IF BadLen(dl)
    THEN [err |-> "bad len", fr |-> ZeroFrame, pos |-> rh.pos, from |-> h - 2]
    ELSE
    LET rt == ReadFull(s, rh.pos, dl + 1) IN
    IF rt.err # "nil"
    THEN [err |-> rt.err, fr |-> ZeroFrame, pos |-> rt.pos, from |-> h - 2]
    ELSE
    LET data == SubSeq(rt.buf, 1, dl)
        crcRx == rt.buf[dl + 1]
    IN
    IF BadCrcReturns /\ frameCrc(hdr, data) # crcRx
    THEN [err |-> "bad crc", fr |-> ZeroFrame, pos |-> rt.pos, from |-> h - 2]
    ELSE [err |-> "nil",
          fr |-> [Millis |-> ParseMillis(hdr), DID |-> ParseDID(hdr),
                  Data |-> data],
          pos |-> rt.pos, from |-> h - 2]

(***************************************************************************)
(* BroadcastParsedSensorData                                               *)
(***************************************************************************)

\* a percentage cut down instead of rounded
TruncPct(raw, max) == (raw * 100) \div max

\* the 16-bit value read least significant byte first
U16le(d) == d[2] * 256 + d[1]

\* int(math.Round(float64(raw) / max * 100.0)) for 0 <= raw <= max, max 255
\* or 1023: raw*100/max is never half way between two integers
RoundPct(raw, max) == (2 * raw * 100 + max) \div (2 * max)

\* int(dataBytes[0])<<8 | int(dataBytes[1])
U16be(d) == d[1] * 256 + d[2]

\* an interpreter that broadcasts something for every frame
SamplesForAll(did, d, ts) == <<[raw |-> Len(d), timestamp |-> ts]>>

\* the maps BroadcastParsedSensorData broadcasts for a frame: one or none
Samples(did, d, ts) ==
    IF did = RPM_DID /\ Len(d) >= 2
    THEN <<[rpm |-> U16be(d) \div 4, timestamp |-> ts]>>
    ELSE IF did = THROTTLE_DID /\ Len(d) >= 1
    THEN <<[throttle |-> RoundPct(d[Len(d)], 255), timestamp |-> ts]>>
    ELSE IF did = GRIP_DID /\ Len(d) >= 1
    THEN <<[grip |-> RoundPct(d[Len(d)], 255), timestamp |-> ts]>>
    ELSE IF did = TPS_DID /\ Len(d) >= 2
    THEN <<[tps |-> RoundPct(IF U16be(d) > 1023 THEN 1023 ELSE U16be(d), 1023),
            timestamp |-> ts]>>
    ELSE IF did = COOLANT_DID /\ Len(d) >= 2
    THEN <<[coolant |-> U16be(d) + COOLANT_OFFSET, timestamp |-> ts]>>
    ELSE IF did = COOLANT_DID /\ Len(d) = 1
    THEN <<[coolant |-> d[1] + COOLANT_OFFSET, timestamp |-> ts]>>
    ELSE <<>>

\* an interpreter that stamps every sample with 0
BroadcastParsedUnstamped(did, d, ts) ==
    IF Samples(did, d, 0) = <<>>
    THEN UNCHANGED hubVars
    ELSE Broadcast(Samples(did, d, 0)[1])

\* BroadcastParsedSensorData(eventHub, did, d, ts)
BroadcastParsedSensorData(did, d, ts) ==
    IF Samples(did, d, ts) = <<>>
    THEN UNCHANGED hubVars
    ELSE Broadcast(Samples(did, d, ts)[1])

(***************************************************************************)
(* readBinary                                                              *)
(***************************************************************************)

\* a record with the identifier written low byte first
RawRecordDIDLittleEndian(fr) ==
    LET dl == Len(fr.Data)
        hdr == << fr.Millis.lo % 256, (fr.Millis.lo \div 256) % 256,
                  fr.Millis.hi % 256, (fr.Millis.hi \div 256) % 256,
                  fr.DID % 256, (fr.DID \div 256) % 256, dl % 256 >>
    IN  <<170, 85>> \o hdr \o fr.Data \o <<frameCrc(hdr, fr.Data)>>

\* the record readBinary rebuilds for the raw log from a Frame
RawRecord(fr) ==
    LET dl == Len(fr.Data)
        hdr == << fr.Millis.lo % 256, (fr.Millis.lo \div 256) % 256,
                  fr.Millis.hi % 256, (fr.Millis.hi \div 256) % 256,
                  (fr.DID \div 256) % 256, fr.DID % 256, dl % 256 >>
    IN  <<170, 85>> \o hdr \o fr.Data \o <<frameCrc(hdr, fr.Data)>>

\* a raw write that counts a frame whether or not raw.Write succeeds
RawSaveCountsFailed(fr, ok) ==
    IF ~rawOn
    THEN UNCHANGED <<rawLog, rawCount, rawFlushed, rawErr>>
    ELSE /\ rawLog' = IF ok THEN rawLog \o RawRecord(fr) ELSE rawLog
         /\ rawCount' = rawCount + 1
         /\ rawFlushed' = IF (rawCount + 1) % WRITE_EVERY_N_FRAMES = 0
                          THEN Len(rawLog')
                          ELSE rawFlushed
         /\ rawErr' = (rawErr \/ ~ok)

\* readBinary: the raw write of one frame; ok is whether raw.Write succeeds
RawSave(fr, ok) ==
    IF ~rawOn
    THEN UNCHANGED <<rawLog, rawCount, rawFlushed, rawErr>>
    ELSE IF ~ok
    THEN /\ rawErr' = TRUE
         /\ UNCHANGED <<rawLog, rawCount, rawFlushed>>
    ELSE /\ rawLog' = rawLog \o RawRecord(fr)
         /\ rawCount' = rawCount + 1
         /\ rawFlushed' = IF (rawCount + 1) % WRITE_EVERY_N_FRAMES = 0
                          THEN Len(rawLog')
                          ELSE rawFlushed
         /\ rawErr' = rawErr

\* an error other than io.EOF that sends readBinary back to its loop
IsEOFOrBadLen(err) == err \in {"EOF", "bad len"}

\* err == io.EOF
IsEOF(err) == err = "EOF"

\* the call BroadcastParsedSensorData(eventHub, did, d, ts), with its
\* arguments put on record
Interpret(did, d, ts) ==
    /\ handed' = Append(handed, [did |-> did, data |-> d, ts |-> ts])
    /\ BroadcastParsedSensorData(did, d, ts)

\* readBinary: one turn of its loop
readBinary ==
    /\ ~rbDone
    /\ ~panicked
    /\ \E r \in {readOneFrame(input, pos)} :
        /\ pos' = r.pos
        /\ calls' = Append(calls, r)
        /\ IF r.err # "nil"
           THEN /\ rbDone' = IsEOF(r.err)
                /\ UNCHANGED <<rawLog, rawCount, rawFlushed, rawErr, now,
                               handed, hubVars>>
           ELSE /\ rbDone' = FALSE
                /\ \E ok \in {~rawErr, FALSE} : RawSave(r.fr, ok)
                /\ now' = now + 1
                /\ Interpret(r.fr.DID, r.fr.Data, now)
    /\ UNCHANGED <<units, input, rawOn, flags, rp, textVars, webVars, crcVars, fwVars,
                   chartVars>>

(***************************************************************************)
(* The replayer: run and playOnce.                                         *)
(***************************************************************************)

\* a < b for two uint32 values
Less32(a, b) == a.hi < b.hi \/ (a.hi = b.hi /\ a.lo < b.lo)

\* a - b for two uint32 values with a >= b
Sub32(a, b) ==
    IF a.lo >= b.lo
    THEN U32(a.hi - b.hi, a.lo - b.lo)
    ELSE U32(a.hi - b.hi - 1, a.lo + 65536 - b.lo)

\* the ReplayFlags when nothing is replayed
NoFlags == [Speed |-> 0, Loop |-> FALSE, SkipFrames |-> 0]

\* the replayer when nothing is replayed; at is "idle", "run" (run is about
\* to call playOnce), "playing" (in the loop of playOnce) or "returned"
\* (run has returned err)
NoReplayer ==
    [at |-> "idle", err |-> "nil", first |-> TRUE, prevMS |-> U32(0, 0),
     frameIndex |-> 0, rets |-> <<>>, sleeps |-> <<>>]

\* playOnce returns err to run: run returns it when it is an error or Loop
\* is unset, and calls playOnce again otherwise
Return(err) ==
    [rp EXCEPT !.at = IF err # "nil" \/ ~flags.Loop THEN "returned" ELSE "run",
               !.err = err,
               !.rets = Append(@, err)]

\* a delay that is not divided by Speed
PaceUnscaled(ms) ==
    IF flags.Speed > 0 /\ Less32(rp.prevMS, ms)
    THEN <<[num |-> Sub32(ms, rp.prevMS), den |-> 1]>>
    ELSE <<>>

\* the time.Sleep of playOnce before a frame stamped ms: ms - prevMS
\* milliseconds divided by Speed (num / den), or none
Pace(ms) ==
    IF flags.Speed > 0 /\ Less32(rp.prevMS, ms)
    THEN <<[num |-> Sub32(ms, rp.prevMS), den |-> flags.Speed]>>
    ELSE <<>>

\* a skip test that skips one frame too many
SkipsOneMore(frameIndex) == frameIndex <= flags.SkipFrames

\* frameIndex < r.SkipFrames
Skips(frameIndex) == frameIndex < flags.SkipFrames

\* run: the call of playOnce up to its loop; ok is whether os.Open succeeds
run ==
    /\ rp.at = "run"
    /\ Len(rp.rets) < MaxPasses
    /\ \E ok \in BOOLEAN :
          IF ok
          THEN /\ rp' = [rp EXCEPT !.at = "playing", !.first = TRUE,
                                   !.prevMS = U32(0, 0), !.frameIndex = 0]
               /\ pos' = 1
          ELSE /\ rp' = Return("open")
               /\ UNCHANGED pos
    /\ UNCHANGED <<units, input, calls, rawOn, rawLog, rawCount, rawFlushed,
                   rawErr, now, rbDone, handed, flags, hubVars,
                   textVars, webVars, crcVars, fwVars,
                   chartVars>>

\* playOnce: one turn of its loop
playOnce ==
    /\ rp.at = "playing"
    /\ ~panicked
    /\ \E r \in {readOneFrame(input, pos)} :
        /\ pos' = r.pos
        /\ calls' = Append(calls, r)
        /\ IF r.err # "nil"
           THEN /\ rp' = IF IsEOF(r.err) THEN Return("nil")
                         ELSE IF r.err = "bad crc" THEN rp
                         ELSE Return(r.err)
                /\ UNCHANGED <<now, handed, hubVars>>
           ELSE IF Skips(rp.frameIndex)
           THEN /\ rp' = [rp EXCEPT !.frameIndex = @ + 1]
                /\ UNCHANGED <<now, handed, hubVars>>
           ELSE /\ rp' = [rp EXCEPT
                             !.first = FALSE,
                             !.prevMS = IF rp.first \/ flags.Speed > 0
                                        THEN r.fr.Millis ELSE @,
                             !.sleeps = Append(@,
                                 IF rp.first THEN <<>> ELSE Pace(r.fr.Millis)),
                             !.frameIndex = @ + 1]
                /\ now' = now + 1
                /\ Interpret(r.fr.DID, r.fr.Data, now)
    /\ UNCHANGED <<units, input, rawOn, rawLog, rawCount, rawFlushed, rawErr,
                   rbDone, flags, textVars, webVars, crcVars, fwVars,
                   chartVars>>

(***************************************************************************)
(* readScanner: the text source.  A line is a sequence of one-character    *)
(* strings; each operator below does what the library function of its name *)
(* does on the lines explored (at most 9 digits in a number, blanks as the  *)
(* only white space).                                                      *)
(***************************************************************************)

Digits == {"0", "1", "2", "3", "4", "5", "6", "7", "8", "9"}

HexDigits == Digits \cup {"a", "b", "c", "d", "e", "f",
                          "A", "B", "C", "D", "E", "F"}

\* the value of a hexadecimal digit
HexVal(c) ==
    CASE c = "0" -> 0 [] c = "1" -> 1 [] c = "2" -> 2 [] c = "3" -> 3
      [] c = "4" -> 4 [] c = "5" -> 5 [] c = "6" -> 6 [] c = "7" -> 7
      [] c = "8" -> 8 [] c = "9" -> 9
      [] c \in {"a", "A"} -> 10 [] c \in {"b", "B"} -> 11
      [] c \in {"c", "C"} -> 12 [] c \in {"d", "D"} -> 13
      [] c \in {"e", "E"} -> 14 [] c \in {"f", "F"} -> 15

\* the value of the digits f in the given base, most significant first
RECURSIVE ValueOf(_, _)
ValueOf(f, base) ==
    IF f = <<>> THEN 0
    ELSE ValueOf(SubSeq(f, 1, Len(f) - 1), base) * base + HexVal(f[Len(f)])

\* strings.TrimSpace(l)
TrimSpace(l) ==
    LET keep == {i \in 1..Len(l) : l[i] # " "} IN
    IF keep = {} THEN <<>>
    ELSE SubSeq(l, CHOOSE i \in keep : \A j \in keep : i <= j,
                   CHOOSE i \in keep : \A j \in keep : i >= j)

\* strings.SplitN(l, ",", n) for n >= 1
RECURSIVE SplitN(_, _)
SplitN(l, n) ==
    LET commas == {i \in 1..Len(l) : l[i] = ","} IN
    IF n = 1 \/ commas = {} THEN <<l>>
    ELSE LET c == CHOOSE i \in commas : \A j \in commas : i <= j
         IN  <<SubSeq(l, 1, c - 1)>> \o SplitN(SubSeq(l, c + 1, Len(l)), n - 1)

\* strconv.Atoi(f): an optional sign, then one digit or more
Atoi(f) ==
    LET signed == f # <<>> /\ f[1] \in {"+", "-"}
        body == IF signed THEN Tail(f) ELSE f
    IN  IF body = <<>> \/ \E i \in 1..Len(body) : body[i] \notin Digits
        THEN [err |-> TRUE, val |-> 0]
        ELSE [err |-> FALSE,
              val |-> IF signed /\ f[1] = "-" THEN 0 - ValueOf(body, 10)
                      ELSE ValueOf(body, 10)]

\* a prefix test that always succeeds
HasPrefixAlways(f, p) == TRUE

\* strings.HasPrefix(f, p)
HasPrefix(f, p) == Len(f) >= Len(p) /\ SubSeq(f, 1, Len(p)) = p

\* strconv.ParseUint(f, 16, 16)
ParseUint(f) ==
    IF f = <<>> \/ \E i \in 1..Len(f) : f[i] \notin HexDigits
    THEN [err |-> TRUE, val |-> 0]
    ELSE IF ValueOf(f, 16) > 65535
    THEN [err |-> TRUE, val |-> 65535]
    ELSE [err |-> FALSE, val |-> ValueOf(f, 16)]

\* strings.ReplaceAll(f, " ", "")
ReplaceAll(f) == SelectSeq(f, LAMBDA c : c # " ")

\* hex.DecodeString(f)
DecodeString(f) ==
    IF Len(f) % 2 = 1 \/ \E i \in 1..Len(f) : f[i] \notin HexDigits
    THEN [err |-> TRUE, val |-> <<>>]
    ELSE [err |-> FALSE,
          val |-> [i \in 1..(Len(f) \div 2) |->
                      16 * HexVal(f[2 * i - 1]) + HexVal(f[2 * i])]]

\* the body of the loop of readScanner up to the hand-over: skip is TRUE
\* when a continue is taken
ParseLine(text) ==
    LET line == TrimSpace(text)
        parts == SplitN(line, 4)
        Skip == [skip |-> TRUE, ts |-> 0, did |-> 0, data |-> <<>>]
    IN
    IF Len(parts) < 3 THEN Skip
    ELSE
    LET timestamp == Atoi(parts[1]) IN
    IF timestamp.err THEN Skip
    ELSE
    LET didStr == parts[2] IN
    IF ~HasPrefix(didStr, <<"0", "x">>) THEN Skip
    ELSE
    LET didVal == ParseUint(SubSeq(didStr, 3, Len(didStr))) IN
    IF didVal.err THEN Skip
    ELSE
    LET clean == ReplaceAll(parts[3]) IN
    IF Len(clean) % 2 = 1 THEN Skip
    ELSE
    LET dataBytes == DecodeString(clean) IN
    IF dataBytes.err \/ Len(dataBytes.val) = 0 THEN Skip
    ELSE [skip |-> FALSE, ts |-> timestamp.val, did |-> didVal.val,
          data |-> dataBytes.val]

\* readScanner: one turn of its loop, for a line that scanner.Scan() found
\* (the sleep of a replay changes no state)
readScanner ==
    /\ lineNo <= Len(lines)
    /\ ~panicked
    /\ lineNo' = lineNo + 1
    /\ \E r \in {ParseLine(lines[lineNo])} :
          IF r.skip
          THEN UNCHANGED <<handed, hubVars>>
          ELSE Interpret(r.did, r.data, r.ts)
    /\ UNCHANGED <<lines, units, input, pos, calls, rawOn, rawLog, rawCount,
                   rawFlushed, rawErr, now, rbDone, flags, rp, webVars,
                   crcVars, fwVars,
                   chartVars>>

(***************************************************************************)
(* Spec: the hub with clients that subscribe, broadcast, cancel and        *)
(* receive in any order.                                                   *)
(***************************************************************************)
\* no text source: readScanner is not running
NoText ==
    /\ lines = <<>>
    /\ lineNo = 1

\* no dashboard connection; no call of the CRC functions on its own
NoWeb ==
    /\ ctx = EmptyMap
    /\ hpc = EmptyMap
    /\ calc = [op |-> "none"]

\* the firmware is not running
NoFirmware ==
    /\ fastIndex = 0
    /\ loggedOnceFast = EmptyMap
    /\ lastChkFast = EmptyMap
    /\ lastLenFast = EmptyMap
    /\ serial = <<>>
    /\ polls = <<>>
    /\ millis = 0

\* the revision with the charts is not running
NoCharts ==
    /\ rpmHistoryLabels = <<>>
    /\ rpmHistoryData = <<>>
    /\ tpsHistoryLabels = <<>>
    /\ tpsHistoryData = <<>>
    /\ ppc = [at |-> "none"]
    /\ ipc = [at |-> "none"]
    /\ svg = <<>>

\* no byte source: readBinary is not running
NoDecoder ==
    /\ units = <<>>
    /\ input = <<>>
    /\ pos = 1
    /\ calls = <<>>
    /\ rawOn = FALSE
    /\ rawLog = <<>>
    /\ rawCount = 0
    /\ rawFlushed = 0
    /\ rawErr = FALSE
    /\ now = 0
    /\ rbDone = TRUE
    /\ handed = <<>>
    /\ flags = NoFlags
    /\ rp = NoReplayer

Init == NewHub /\ NoDecoder /\ NoText /\ NoWeb /\ NoFirmware /\ NoCharts

Next ==
    \/ next \in SubIds /\ Subscribe /\ UNCHANGED restVars
    \/ \E s \in Sigs :
          Len(bhist) < MaxBroadcasts /\ Broadcast(s) /\ UNCHANGED restVars
    \/ \E id \in SubIds : Cancel(id) /\ UNCHANGED restVars
    \/ \E id \in SubIds : Receive(id) /\ UNCHANGED restVars
    \/ \E id \in SubIds : ReceiveClosed(id) /\ UNCHANGED restVars

Spec == Init /\ [][Next]_vars

(***************************************************************************)
(* SpecFull: the hub with one producer whose n-th Broadcast carries        *)
(* RampSig(n), long enough to fill a mailbox; no subscription is cancelled. *)
(***************************************************************************)
NextFull ==
    \/ next \in SubIds /\ Subscribe /\ UNCHANGED restVars
    \/ /\ Len(bhist) < MaxFullBroadcasts
       /\ Broadcast(RampSig(Len(bhist) + 1))
       /\ UNCHANGED restVars
    \/ \E id \in SubIds : Receive(id) /\ UNCHANGED restVars

SpecFull == Init /\ [][NextFull]_vars

(***************************************************************************)
(* SpecDecode: readBinary on a byte stream put together from at most       *)
(* MaxUnits pieces, each some stray bytes followed by a frame as sendFrame *)
(* writes it, a frame with a wrong CRC byte, a header with a length byte   *)
(* above 64, the first bytes of a frame, or nothing.                       *)
(***************************************************************************)

\* the frames the firmware sends in the streams explored
FrameA == [Millis |-> U32(258, 772), DID |-> RPM_DID, Data |-> <<31, 64>>]
FrameB == [Millis |-> U32(65535, 65535), DID |-> COOLANT_DID, Data |-> <<40>>]
FrameC == [Millis |-> U32(0, 21930), DID |-> TPS_DID, Data |-> <<3, 255>>]
FrameD == [Millis |-> U32(0, 1), DID |-> 43981, Data |-> <<>>]
FrameE == [Millis |-> U32(0, 2), DID |-> THROTTLE_DID,
           Data |-> [i \in 1..64 |-> i]]
TestFrames == {FrameA, FrameB, FrameC, FrameD, FrameE}

\* stray bytes between frames
Garbage == {<<>>, <<0>>, <<170>>}

\* the bytes sendFrame writes for a Frame
Wire(fr) == sendFrame(fr.Millis, fr.DID, fr.Data, Len(fr.Data))

\* the bytes of fr with the trailing CRC byte changed
WireBadCrc(fr) ==
    LET w == Wire(fr) IN [w EXCEPT ![Len(w)] = (@ + 1) % 256]

\* the bytes of every piece a stream can hold, computed once
WireOf == [fr \in TestFrames |-> Wire(fr)]
WireBadCrcOf == [fr \in TestFrames |-> WireBadCrc(fr)]

Units ==
    [g : Garbage, kind : {"frame"}, fr : TestFrames, n : {0}]
    \cup [g : Garbage, kind : {"badcrc"}, fr : {FrameB}, n : {0}]
    \cup [g : Garbage, kind : {"badlen"}, fr : {FrameA}, n : {65, 255}]
    \cup [g : Garbage, kind : {"cut"}, fr : {FrameA}, n : {2, 5, 10}]
    \cup [g : Garbage, kind : {"none"}, fr : {FrameA}, n : {0}]

\* the bytes of one unit
UnitBytes(u) ==
    u.g \o
    CASE u.kind = "frame" -> WireOf[u.fr]
      [] u.kind = "badcrc" -> WireBadCrcOf[u.fr]
      [] u.kind = "badlen" -> <<170, 85>> \o sendHdr(u.fr.Millis, u.fr.DID, u.n)
      [] u.kind = "cut" -> SubSeq(WireOf[u.fr], 1, u.n)
      [] OTHER -> <<>>

RECURSIVE StreamOf(_)
StreamOf(us) ==
    IF us = <<>> THEN <<>> ELSE UnitBytes(Head(us)) \o StreamOf(Tail(us))

UnitSeqs == UNION {[1..n -> Units] : n \in 0..MaxUnits}

InitDecode ==
    /\ NewHub
    /\ units \in UnitSeqs
    /\ input = StreamOf(units)
    /\ pos = 1
    /\ calls = <<>>
    /\ rawOn \in BOOLEAN
    /\ rawLog = <<>>
    /\ rawCount = 0
    /\ rawFlushed = 0
    /\ rawErr = FALSE
    /\ now = 1000000
    /\ rbDone = FALSE
    /\ handed = <<>>
    /\ flags = NoFlags
    /\ rp = NoReplayer
    /\ NoText
    /\ NoWeb
    /\ NoFirmware
    /\ NoCharts

NextDecode == readBinary

SpecDecode == InitDecode /\ [][NextDecode]_vars

(***************************************************************************)
(* SpecDrivers: the two drivers of the decoder, readBinary on a serial     *)
(* stream and the replayer on a file, each on a stream of at most MaxUnits *)
(* pieces; FairDrivers has the driver's goroutine keep running.            *)
(***************************************************************************)

\* the pieces of the streams given to the drivers
DriverUnits ==
    {u \in Units : /\ u.g = <<>>
                    /\ u.fr \in {FrameA, FrameB, FrameD}
                    /\ u.kind # "badcrc"
                    /\ u.n # 255}

DriverSeqs == UNION {[1..n -> DriverUnits] : n \in 0..MaxUnits}

\* the values of -replay-speed, -replay-loop and -replay-skip-frames
ReplayFlags == [Speed : {0, 4}, Loop : BOOLEAN, SkipFrames : {0, 1}]

InitDrivers ==
    /\ NewHub
    /\ NoText
    /\ NoWeb
    /\ NoFirmware
    /\ NoCharts
    /\ units \in DriverSeqs
    /\ input = StreamOf(units)
    /\ pos = 1
    /\ calls = <<>>
    /\ rawLog = <<>>
    /\ rawCount = 0
    /\ rawFlushed = 0
    /\ rawErr = FALSE
    /\ now = 1000000
    /\ handed = <<>>
    /\ \/ /\ rbDone = FALSE
          /\ rawOn \in BOOLEAN
          /\ flags = NoFlags
          /\ rp = NoReplayer
       \/ /\ rbDone = TRUE
          /\ rawOn = FALSE
          /\ flags \in ReplayFlags
          /\ rp = [NoReplayer EXCEPT !.at = "run"]

NextDrivers == readBinary \/ run \/ playOnce

SpecDrivers == InitDrivers /\ [][NextDrivers]_vars

FairDrivers ==
    /\ SpecDrivers
    /\ WF_vars(readBinary)
    /\ WF_vars(run)
    /\ WF_vars(playOnce)

(***************************************************************************)
(* SpecScale: BroadcastParsedSensorData applied once to an identifier and  *)
(* a payload. SpecInterpret: a sequence of at most MaxSamples calls, with  *)
(* clients that subscribe and receive in between.                          *)
(***************************************************************************)

\* a caller of the interpreter hands it a: identifier, payload, timestamp
Sample(a) ==
    /\ ~panicked
    /\ Interpret(a.did, a.data, a.ts)
    /\ UNCHANGED <<units, input, pos, calls, rawOn, rawLog, rawCount,
                   rawFlushed, rawErr, now, rbDone, flags, rp,
                   textVars, webVars, crcVars, fwVars,
                   chartVars>>

\* the identifiers: the five known ones, 0xABCD and 0x0109
SampleDIDs ==
    {RPM_DID, THROTTLE_DID, GRIP_DID, TPS_DID, COOLANT_DID, 43981, 265}

\* payloads of 0, 1, 2 and 3 bytes: every single byte, every 16-bit value
\* up to 0x04FF and from 0xFF00
ScalePayloads ==
    {<<>>}
    \cup {<<b>> : b \in 0..255}
    \cup {<<h, l>> : h \in {0, 1, 2, 3, 4, 255}, l \in 0..255}
    \cup {<<3, 255, 1>>, <<0, 50, 200>>, <<4, 0, 255>>}

ScaleArgs == [did : SampleDIDs, data : ScalePayloads, ts : {1000000}]

NextScale == \E a \in ScaleArgs : handed = <<>> /\ Sample(a)

SpecScale == Init /\ [][NextScale]_vars

\* the timestamps passed in: not in increasing order
Stamps == {7, 3}

InterpretPayloads == {<<>>, <<40>>, <<0, 50>>}

InterpretArgs ==
    [did : SampleDIDs \ {265}, data : InterpretPayloads, ts : Stamps]

NextInterpret ==
    \/ \E a \in InterpretArgs : Len(handed) < MaxSamples /\ Sample(a)
    \/ next \in SubIds /\ Subscribe /\ UNCHANGED restVars
    \/ \E id \in SubIds : Receive(id) /\ UNCHANGED restVars

SpecInterpret == Init /\ [][NextInterpret]_vars

(***************************************************************************)
(* SpecText: readScanner on at most MaxLines lines, each one of the lines  *)
(* of TextCases: four well-formed lines (one with blanks around it and a   *)
(* fourth field, one with a negative timestamp and a blank in its payload, *)
(* one with an unknown identifier) and one line for each way a line can be *)
(* malformed.  want is the call of the interpreter the line is to lead to, *)
(* or none.                                                                *)
(***************************************************************************)
TextCases == {
    \* 12,0x0100,1F40
    [line |-> <<"1", "2", ",", "0", "x", "0", "1", "0", "0", ",", "1", "F", "4", "0">>,
     want |-> <<[did |-> 256, data |-> <<31, 64>>, ts |-> 12]>>],
    \*   7,0x0009,28,extra,more 
    [line |-> <<" ", " ", "7", ",", "0", "x", "0", "0", "0", "9", ",", "2", "8", ",", "e", "x", "t", "r", "a", ",", "m", "o", "r", "e", " ">>,
     want |-> <<[did |-> 9, data |-> <<40>>, ts |-> 7]>>],
    \* -3,0x76,03 ff
    [line |-> <<"-", "3", ",", "0", "x", "7", "6", ",", "0", "3", " ", "f", "f">>,
     want |-> <<[did |-> 118, data |-> <<3, 255>>, ts |-> -3]>>],
    \* 5,0xABCD,00
    [line |-> <<"5", ",", "0", "x", "A", "B", "C", "D", ",", "0", "0">>,
     want |-> <<[did |-> 43981, data |-> <<0>>, ts |-> 5]>>],
    \* 12,0x0100
    [line |-> <<"1", "2", ",", "0", "x", "0", "1", "0", "0">>,
     want |-> <<>>],
    \* (an empty line)
    [line |-> <<>>,
     want |-> <<>>],
    \* 1x,0x0100,1F40
    [line |-> <<"1", "x", ",", "0", "x", "0", "1", "0", "0", ",", "1", "F", "4", "0">>,
     want |-> <<>>],
    \* 12,0100,1F40
    [line |-> <<"1", "2", ",", "0", "1", "0", "0", ",", "1", "F", "4", "0">>,
     want |-> <<>>],
    \* 12,0xZZ,1F40
    [line |-> <<"1", "2", ",", "0", "x", "Z", "Z", ",", "1", "F", "4", "0">>,
     want |-> <<>>],
    \* 12,0x0100,zz
    [line |-> <<"1", "2", ",", "0", "x", "0", "1", "0", "0", ",", "z", "z">>,
     want |-> <<>>],
    \* 12,0x0100,1F4
    [line |-> <<"1", "2", ",", "0", "x", "0", "1", "0", "0", ",", "1", "F", "4">>,
     want |-> <<>>],
    \* 12,0x0100,
    [line |-> <<"1", "2", ",", "0", "x", "0", "1", "0", "0", ",">>,
     want |-> <<>>]}

TextLines == {c.line : c \in TextCases}

LineSeqs == UNION {[1..n -> TextLines] : n \in 0..MaxLines}

InitText ==
    /\ NewHub
    /\ NoDecoder
    /\ NoWeb
    /\ NoFirmware
    /\ NoCharts
    /\ lines \in LineSeqs
    /\ lineNo = 1

NextText == readScanner

SpecText == InitText /\ [][NextText]_vars

(***************************************************************************)
(* EventsHandler.  SpecWeb: dashboard connections are made, each served by *)
(* its own EventsHandler, their request contexts are cancelled at any      *)
(* time, and one producer broadcasts RampSig(1), RampSig(2), ...           *)
(* FairWeb: the select of a handler whose context is done takes the Done   *)
(* case after finitely many events (select picks among its ready cases at  *)
(* random), and a handler that returns gets the hub's mutex for its        *)
(* deferred cancel.                                                        *)
(***************************************************************************)

\* a handler whose return runs no cancel
DeferredNothing(id) == UNCHANGED hubVars

\* defer cancel()
Deferred(id) == Cancel(id)

\* EventsHandler up to its loop: _, ch, cancel := EventHub.Subscribe()
Connect ==
    /\ next \in SubIds
    /\ Subscribe
    /\ ctx' = (next :> FALSE) @@ ctx
    /\ hpc' = (next :> "serving") @@ hpc
    /\ UNCHANGED <<decVars, textVars, crcVars, fwVars,
                   chartVars>>

\* the client goes away: r.Context() is cancelled
Done(id) ==
    /\ id \in DOMAIN ctx
    /\ ~ctx[id]
    /\ ctx' = [ctx EXCEPT ![id] = TRUE]
    /\ UNCHANGED <<hubVars, decVars, textVars, hpc, crcVars, fwVars,
                   chartVars>>

\* case event := <-ch: the patch is written to the connection; ok is
\* whether updateFunc(sse) returns no error
Serve(id) ==
    /\ id \in DOMAIN hpc
    /\ hpc[id] = "serving"
    /\ Receive(id)
    /\ \E ok \in BOOLEAN :
          hpc' = [hpc EXCEPT ![id] = IF ok THEN "serving" ELSE "returning"]
    /\ UNCHANGED <<decVars, textVars, ctx, crcVars, fwVars,
                   chartVars>>

\* case <-r.Context().Done(): return
Quit(id) ==
    /\ id \in DOMAIN hpc
    /\ hpc[id] = "serving"
    /\ ctx[id]
    /\ hpc' = [hpc EXCEPT ![id] = "returning"]
    /\ UNCHANGED <<hubVars, decVars, textVars, ctx, crcVars, fwVars,
                   chartVars>>

\* the handler returns: its deferred cancel runs
Returns(id) ==
    /\ id \in DOMAIN hpc
    /\ hpc[id] = "returning"
    /\ Deferred(id)
    /\ hpc' = [hpc EXCEPT ![id] = "returned"]
    /\ UNCHANGED <<decVars, textVars, ctx, crcVars, fwVars,
                   chartVars>>

\* the producer
Produce ==
    /\ Len(bhist) < MaxWebBroadcasts
    /\ Broadcast(RampSig(Len(bhist) + 1))
    /\ UNCHANGED restVars

NextWeb ==
    \/ Connect
    \/ Produce
    \/ \E id \in SubIds : Done(id)
    \/ \E id \in SubIds : Serve(id)
    \/ \E id \in SubIds : Quit(id)
    \/ \E id \in SubIds : Returns(id)

SpecWeb == Init /\ [][NextWeb]_vars

FairWeb ==
    /\ SpecWeb
    /\ \A id \in SubIds : WF_vars(Quit(id)) /\ WF_vars(Returns(id))

(***************************************************************************)
(* SpecCrc: the CRC functions of the decoder and of the firmware applied   *)
(* to every pair of bytes, to a few buffers and to the frames of           *)
(* TestFrames.                                                             *)
(***************************************************************************)

\* the buffers the CRC is folded over: "123456789" among them
CrcBufs == {<<>>, <<0>>, <<255, 1>>, <<1, 255>>,
            <<49, 50, 51, 52, 53, 54, 55, 56, 57>>}

\* a call of crc8Update / crc8_ccitt_update, of crc8UpdateBuf /
\* crc8_ccitt_buf, or the checksum of a frame on both sides
CrcCalls ==
    [op : {"update"}, crc : 0..255, b : 0..255]
    \cup [op : {"buf"}, crc : {0, 90, 255}, p : CrcBufs]
    \cup [op : {"frame"}, fr : TestFrames]

InitCrc ==
    /\ NewHub
    /\ NoDecoder
    /\ NoText
    /\ ctx = EmptyMap
    /\ hpc = EmptyMap
    /\ NoFirmware
    /\ NoCharts
    /\ calc \in CrcCalls

\* crc8Update(crc, b) and the firmware's crc8_ccitt_update(crc, b)
Update ==
    /\ calc.op = "update"
    /\ calc' = [op |-> "updated", crc |-> calc.crc, b |-> calc.b,
                go |-> crc8Update(calc.crc, calc.b),
                fw |-> crc8_ccitt_update(calc.crc, calc.b)]
    /\ UNCHANGED <<hubVars, decVars, textVars, webVars, fwVars,
                 chartVars>>

\* crc8UpdateBuf(crc, p) and the firmware's crc8_ccitt_buf(crc, p, n)
UpdateBuf ==
    /\ calc.op = "buf"
    /\ calc' = [op |-> "folded", crc |-> calc.crc, p |-> calc.p,
                go |-> crc8UpdateBuf(calc.crc, calc.p),
                fw |-> crc8_ccitt_buf(calc.crc, calc.p, Len(calc.p))]
    /\ UNCHANGED <<hubVars, decVars, textVars, webVars, fwVars,
                 chartVars>>

\* the checksum sendFrame writes and the one readOneFrame computes
FrameChecksum ==
    /\ calc.op = "frame"
    /\ \E hdr \in {sendHdr(calc.fr.Millis, calc.fr.DID, Len(calc.fr.Data))} :
          calc' = [op |-> "framed", fr |-> calc.fr,
                   go |-> frameCrc(hdr, calc.fr.Data),
                   fw |-> sendCrc(hdr, calc.fr.Data, Len(calc.fr.Data))]
    /\ UNCHANGED <<hubVars, decVars, textVars, webVars, fwVars,
                 chartVars>>

NextCrc == Update \/ UpdateBuf \/ FrameChecksum

SpecCrc == InitCrc /\ [][NextCrc]_vars

(***************************************************************************)
(* SpecRevisions: the interpreter of the current revision,                 *)
(* BroadcastParsedSensorData, and the one of the earlier revision kept in   *)
(* main.go, broadcastParsedSensorData, applied to the same identifier and   *)
(* payload: every 16-bit tps reading up to 1023 and some above, every last  *)
(* byte for grip and throttle behind 0, 1 or 2 other bytes.                 *)
(***************************************************************************)

\* an integer form that rounds up
IntPctCeil(raw) == (raw * 100 + 1022) \div 1023

\* pct := (raw*100 + 511) / 1023 of main.go
IntPct(raw) == (raw * 100 + 511) \div 1023

\* the maps broadcastParsedSensorData of main.go broadcasts for a frame:
\* one or none
SamplesMain(did, d, ts) ==
    IF did = RPM_DID /\ Len(d) >= 2
    THEN <<[rpm |-> U16be(d) \div 4, timestamp |-> ts]>>
    ELSE IF did = THROTTLE_DID /\ Len(d) >= 1
    THEN <<[throttle |-> d[Len(d)], timestamp |-> ts]>>
    ELSE IF did = GRIP_DID /\ Len(d) >= 1
    THEN <<[grip |-> d[Len(d)], timestamp |-> ts]>>
    ELSE IF did = TPS_DID /\ Len(d) >= 2
    THEN <<[tps |-> IntPct(IF U16be(d) > 1023 THEN 1023 ELSE U16be(d)),
            timestamp |-> ts]>>
    ELSE IF did = COOLANT_DID /\ Len(d) >= 2
    THEN <<[coolant |-> U16be(d) - 40, timestamp |-> ts]>>
    ELSE IF did = COOLANT_DID /\ Len(d) = 1
    THEN <<[coolant |-> d[1] - 40, timestamp |-> ts]>>
    ELSE <<>>

TpsPayloads ==
    {<<h, l>> : h \in 0..3, l \in 0..255}
    \cup {<<4, 0>>, <<255, 255>>, <<1, 2, 3>>, <<7>>, <<>>}

BytePayloads ==
    {<<b>> : b \in 0..255}
    \cup {<<x, b>> : x \in {0, 200}, b \in {0, 1, 127, 128, 254, 255}}
    \cup {<<9, 9, b>> : b \in {0, 128, 255}}
    \cup {<<>>}

RevisionArgs ==
    [op : {"sample"}, did : {TPS_DID}, data : TpsPayloads, ts : {7}]
    \cup [op : {"sample"}, did : {GRIP_DID, THROTTLE_DID},
          data : BytePayloads, ts : {7}]
    \cup [op : {"sample"}, did : {RPM_DID, COOLANT_DID, 43981},
          data : {<<>>, <<40>>, <<31, 64>>}, ts : {7}]

InitRevisions ==
    /\ NewHub
    /\ NoDecoder
    /\ NoText
    /\ ctx = EmptyMap
    /\ hpc = EmptyMap
    /\ NoFirmware
    /\ NoCharts
    /\ calc \in RevisionArgs

\* both interpreters are given the same frame
Interpreted ==
    /\ calc.op = "sample"
    /\ calc' = [op |-> "sampled", did |-> calc.did, data |-> calc.data,
                ts |-> calc.ts,
                cur |-> Samples(calc.did, calc.data, calc.ts),
                old |-> SamplesMain(calc.did, calc.data, calc.ts)]
    /\ UNCHANGED <<hubVars, decVars, textVars, webVars, fwVars,
                 chartVars>>

NextRevisions == Interpreted

SpecRevisions == InitRevisions /\ [][NextRevisions]_vars

(***************************************************************************)
(* SpecFirmware: the logger firmware polling the identifiers of FAST_DIDS  *)
(* in turn, MaxPolls times.  The ECU answers a request for the first two   *)
(* identifiers with one of a few messages, or not at all; it never answers *)
(* for the others.  The SLOW list of did_list.h is polled by the same      *)
(* pollOne with arrays of its own.                                         *)
(***************************************************************************)
MaxPolls == 35

FAST_DIDS == <<256, 9, 118, 112, 1, 49, 100, 272, 18, 66, 3, 65, 258, 264,
               306, 2, 304>>

FAST_COUNT == Len(FAST_DIDS)

SID_ReadDataByIdentifier == 34

POS_OFFSET == 64

\* sizeof(rsp) in readDID
RspSize == 64

\* sizeof(data) in pollOne
DataSize == 64

\* no answer of the ECU within the timeout
NoAnswer == [answered |-> FALSE, bytes |-> <<>>]

Answer(b) == [answered |-> TRUE, bytes |-> b]

\* what the ECU may answer when asked for the identifier at index idx
Answers(idx) ==
    IF idx = 0
    THEN {NoAnswer,
          Answer(<<98, 1, 0, 1, 2>>),
          Answer(<<98, 1, 0, 2, 1>>),
          Answer(<<98, 1, 0, 3>>),
          Answer(<<98, 1, 0>>),
          Answer(<<98>>),
          Answer(<<98, 1, 1, 5>>),
          Answer(<<127, 34, 49>>),
          Answer(<<98, 1, 0>> \o [i \in 1..61 |-> i]),
          Answer(<<98, 1, 0>> \o [i \in 1..62 |-> i])}
    ELSE IF idx = 1
    THEN {NoAnswer, Answer(<<98, 0, 9, 40>>), Answer(<<98, 0, 9, 41>>)}
    ELSE {NoAnswer}

\* an isotpRecv that takes a message of any length
isotpRecvAnyLength(msg, maxLen) == msg.answered

\* isotpRecv(CAN_ID_RSP, out, outLen, maxLen): TRUE when a whole message was
\* received; a message longer than maxLen is refused
isotpRecv(msg, maxLen) == msg.answered /\ Len(msg.bytes) <= maxLen

\* udsRequest(req, reqLen, rsp, rspLen, maxLen): a negative response is a
\* failure
udsRequest(msg, maxLen) ==
    /\ isotpRecv(msg, maxLen)
    /\ ~(Len(msg.bytes) >= 3 /\ msg.bytes[1] = 127)

\* readDID(did, out, maxLen): the bytes copied to out; their number is the
\* value returned
readDID(did, msg, maxLen) ==
    IF ~udsRequest(msg, RspSize) THEN <<>>
    ELSE LET rsp == msg.bytes
             rlen == Len(rsp)
         IN  IF /\ rlen >= 3
                /\ rsp[1] = SID_ReadDataByIdentifier + POS_OFFSET
                /\ rsp[2] = (did \div 256) % 256
                /\ rsp[3] = did % 256
             THEN LET dataLen == IF rlen - 3 > maxLen THEN maxLen
                                 ELSE rlen - 3
                  IN  SubSeq(rsp, 4, 3 + dataLen)
             ELSE <<>>

\* chk ^= data[i] for i from lo to hi
RECURSIVE XorRange(_, _, _)
XorRange(data, lo, hi) ==
    IF lo > hi THEN 0
    ELSE IF lo = hi THEN data[lo]
    ELSE LET mid == (lo + hi) \div 2
         IN  Xor(XorRange(data, lo, mid), XorRange(data, mid + 1, hi))

\* pollOne: the simple checksum over the payload
Chk(data) == XorRange(data, 1, Len(data))

\* pollOne: bool changed
Changed(chk, len, idx) == chk # lastChkFast[idx] \/ len # lastLenFast[idx]

\* pollOne(did, lastChkFast, lastLenFast, loggedOnceFast, idx) when the ECU
\* answers msg
pollOne(did, idx, msg) ==
    \E data \in {readDID(did, msg, DataSize)} :
    \E chk \in {Chk(data)} :
        LET len == Len(data)
            send == ~loggedOnceFast[idx] \/ Changed(chk, len, idx)
        IN
        IF len = 0
        THEN UNCHANGED <<loggedOnceFast, lastChkFast, lastLenFast, serial,
                         polls>>
        ELSE /\ polls' = Append(polls, [idx |-> idx, data |-> data,
                                        sent |-> send])
             /\ IF send
                THEN /\ serial' = Append(serial,
                             sendFrame(U32(0, millis), did, data, len % 256))
                     /\ loggedOnceFast' =
                             [loggedOnceFast EXCEPT ![idx] = TRUE]
                     /\ lastChkFast' = [lastChkFast EXCEPT ![idx] = chk]
                     /\ lastLenFast' = [lastLenFast EXCEPT ![idx] = len % 256]
                ELSE UNCHANGED <<loggedOnceFast, lastChkFast, lastLenFast,
                                 serial>>

\* the static arrays are zeroed
InitFirmware ==
    /\ NewHub
    /\ NoDecoder
    /\ NoText
    /\ NoWeb
    /\ NoCharts
    /\ fastIndex = 0
    /\ loggedOnceFast = [i \in 0..(FAST_COUNT - 1) |-> FALSE]
    /\ lastChkFast = [i \in 0..(FAST_COUNT - 1) |-> 0]
    /\ lastLenFast = [i \in 0..(FAST_COUNT - 1) |-> 0]
    /\ serial = <<>>
    /\ polls = <<>>
    /\ millis = 0

\* loop: the FAST round-robin, once FAST_GAP_MS has passed
loop ==
    /\ millis < MaxPolls
    /\ \E msg \in Answers(fastIndex) :
          pollOne(FAST_DIDS[fastIndex + 1], fastIndex, msg)
    /\ fastIndex' = (fastIndex + 1) % FAST_COUNT
    /\ millis' = millis + 1
    /\ UNCHANGED <<hubVars, decVars, textVars, webVars, crcVars, chartVars>>

NextFirmware == loop

SpecFirmware == InitFirmware /\ [][NextFirmware]_vars

(***************************************************************************)
(* SpecFlush: readBinary with a raw writer on a stream of MaxFrames valid  *)
(* frames, enough for the writer to be flushed; any raw.Write may fail.    *)
(***************************************************************************)
MaxFrames == 102

\* the i-th frame of the stream, when the first one is first
FlushUnit(first, i) ==
    [g |-> <<>>, kind |-> "frame", n |-> 0,
     fr |-> IF i % 2 = 1 THEN first
            ELSE IF first = FrameA THEN FrameB ELSE FrameA]

\* the bytes of the units lo..hi of us
RECURSIVE StreamRange(_, _, _)
StreamRange(us, lo, hi) ==
    IF lo > hi THEN <<>>
    ELSE IF lo = hi THEN UnitBytes(us[lo])
    ELSE LET mid == (lo + hi) \div 2
         IN  StreamRange(us, lo, mid) \o StreamRange(us, mid + 1, hi)

InitFlush ==
    /\ NewHub
    /\ \E first \in {FrameA, FrameB} :
          units = [i \in 1..MaxFrames |-> FlushUnit(first, i)]
    /\ input = StreamRange(units, 1, Len(units))
    /\ pos = 1
    /\ calls = <<>>
    /\ rawOn = TRUE
    /\ rawLog = <<>>
    /\ rawCount = 0
    /\ rawFlushed = 0
    /\ rawErr = FALSE
    /\ now = 1000000
    /\ rbDone = FALSE
    /\ handed = <<>>
    /\ flags = NoFlags
    /\ rp = NoReplayer
    /\ NoText
    /\ NoWeb
    /\ NoFirmware
    /\ NoCharts

NextFlush == readBinary

SpecFlush == InitFlush /\ [][NextFlush]_vars

(***************************************************************************)
(* SpecCharts: the revision that keeps a history for the RPM and TPS       *)
(* charts.  The producer goroutine runs broadcastParsedSensorData on at    *)
(* most MaxCharted frames, statement by statement; the index handler runs  *)
(* at most MaxRequests times on its own goroutine and reads the history    *)
(* slices with no lock.  A read that races with an append gives the slice  *)
(* as it is or as it was before some of the appends.                       *)
(***************************************************************************)
MaxCharted == 2

MaxRequests == 2

\* the frames the producer is given
ChartArgs == [did : {RPM_DID, TPS_DID}, data : {<<0, 50>>, <<31, 64>>},
              ts : {3, 7}]

\* generateSVG(name, description, data, labels): data[i] is read for every
\* index of labels; a point is the pair given to the scaling
generateSVG(name, data, labels) ==
    [name |-> name, data |-> data, labels |-> labels,
     panics |-> \E i \in 1..Len(labels) : i > Len(data),
     points |-> [i \in 1..(IF Len(labels) <= Len(data) THEN Len(labels) ELSE 0)
                    |-> <<labels[i], data[i]>>]]

\* the value broadcast and charted for a frame
ChartValue(did, d) ==
    IF did = RPM_DID THEN U16be(d) \div 4
    ELSE IntPct(IF U16be(d) > 1023 THEN 1023 ELSE U16be(d))

ChartKey(did) == IF did = RPM_DID THEN "rpm" ELSE "tps"

\* what a read of slice x without synchronisation can give
RacyRead(x) == {SubSeq(x, 1, n) : n \in 0..Len(x)}

InitCharts ==
    /\ NewHub
    /\ NoDecoder
    /\ NoText
    /\ NoWeb
    /\ NoFirmware
    /\ rpmHistoryLabels = <<>>
    /\ rpmHistoryData = <<>>
    /\ tpsHistoryLabels = <<>>
    /\ tpsHistoryData = <<>>
    /\ ppc = [at |-> "idle"]
    /\ ipc = [at |-> "idle", served |-> 0]
    /\ svg = <<>>

\* broadcastParsedSensorData, case RPM_DID and case TPS_DID with two bytes
\* or more: eventHub.Broadcast
ChartBroadcast ==
    /\ ppc.at = "idle"
    /\ Len(bhist) < MaxCharted
    /\ \E a \in ChartArgs :
          /\ Broadcast([k \in {ChartKey(a.did)} |-> ChartValue(a.did, a.data)])
          /\ ppc' = [at |-> "labels", did |-> a.did, ts |-> a.ts,
                     val |-> ChartValue(a.did, a.data)]
    /\ UNCHANGED <<decVars, textVars, webVars, crcVars, fwVars,
                   rpmHistoryLabels, rpmHistoryData, tpsHistoryLabels,
                   tpsHistoryData, ipc, svg>>

\* rpmHistoryLabels = append(rpmHistoryLabels, timestamp), or the tps one
AppendLabels ==
    /\ ppc.at = "labels"
    /\ IF ppc.did = RPM_DID
       THEN /\ rpmHistoryLabels' = Append(rpmHistoryLabels, ppc.ts)
            /\ UNCHANGED tpsHistoryLabels
       ELSE /\ tpsHistoryLabels' = Append(tpsHistoryLabels, ppc.ts)
            /\ UNCHANGED rpmHistoryLabels
    /\ ppc' = [ppc EXCEPT !.at = "data"]
    /\ UNCHANGED <<hubVars, decVars, textVars, webVars, crcVars, fwVars,
                   rpmHistoryData, tpsHistoryData, ipc, svg>>

\* rpmHistoryData = append(rpmHistoryData, rpm), or the tps one
AppendData ==
    /\ ppc.at = "data"
    /\ IF ppc.did = RPM_DID
       THEN /\ rpmHistoryData' = Append(rpmHistoryData, ppc.val)
            /\ UNCHANGED tpsHistoryData
       ELSE /\ tpsHistoryData' = Append(tpsHistoryData, ppc.val)
            /\ UNCHANGED rpmHistoryData
    /\ ppc' = [at |-> "idle"]
    /\ UNCHANGED <<hubVars, decVars, textVars, webVars, crcVars, fwVars,
                   rpmHistoryLabels, tpsHistoryLabels, ipc, svg>>

\* the index handler evaluates the data argument of a generateSVG call:
\* tpsHistoryData first, rpmHistoryData for the second call
ReadData ==
    /\ \/ ipc.at = "idle" /\ ipc.served < MaxRequests
       \/ ipc.at = "next"
    /\ LET chart == IF ipc.at = "idle" THEN "tps" ELSE "rpm" IN
       \E d \in RacyRead(IF chart = "tps" THEN tpsHistoryData
                         ELSE rpmHistoryData) :
          ipc' = [at |-> "labels", served |-> ipc.served, chart |-> chart,
                  data |-> d]
    /\ UNCHANGED <<hubVars, decVars, textVars, webVars, crcVars, fwVars,
                   rpmHistoryLabels, rpmHistoryData, tpsHistoryLabels,
                   tpsHistoryData, ppc, svg>>

\* the index handler evaluates the labels argument and calls generateSVG; a
\* panic ends the handler
CallGenerateSVG ==
    /\ ipc.at = "labels"
    /\ \E l \in RacyRead(IF ipc.chart = "tps" THEN tpsHistoryLabels
                         ELSE rpmHistoryLabels) :
       \E r \in {generateSVG(ipc.chart, ipc.data, l)} :
          /\ svg' = Append(svg, r)
          /\ ipc' = IF ipc.chart = "tps" /\ ~r.panics
                    THEN [at |-> "next", served |-> ipc.served]
                    ELSE [at |-> "idle", served |-> ipc.served + 1]
    /\ UNCHANGED <<hubVars, decVars, textVars, webVars, crcVars, fwVars,
                   rpmHistoryLabels, rpmHistoryData, tpsHistoryLabels,
                   tpsHistoryData, ppc>>

NextCharts ==
    \/ ChartBroadcast
    \/ AppendLabels
    \/ AppendData
    \/ ReadData
    \/ CallGenerateSVG

SpecCharts == InitCharts /\ [][NextCharts]_vars

(***************************************************************************)
(* Properties of the hub.                                                  *)
(***************************************************************************)

\* the names carried by the broadcasts of h
KeysOf(h) == UNION {DOMAIN h[i] : i \in 1..Len(h)}

\* the last broadcast of h that carries k
LastWith(h, k) ==
    CHOOSE i \in 1..Len(h) :
        k \in DOMAIN h[i] /\ \A j \in (i + 1)..Len(h) : k \notin DOMAIN h[j]

\* key-wise latest value over the broadcasts of h
Latest(h) == [k \in KeysOf(h) |-> h[LastWith(h, k)][k]]

\* everything delivered to subscription id so far, received or pending
Delivered(id) == recv[id] \o chans[id].buf

\* the broadcasts made before Subscribe returned id
Earlier(id) == SubSeq(bhist, 1, subAt[id])

\* C1: when Subscribe runs after a non-empty Broadcast, the first value
\* received from its channel is the Snapshot accumulated at that moment
\* (key-wise latest value over the earlier broadcasts), and every other
\* value received is an update broadcast after the Subscribe.
C1_SnapshotFirst ==
    \A id \in DOMAIN chans :
        (KeysOf(Earlier(id)) # {} /\ recv[id] # <<>>) =>
            /\ recv[id][1] = [m |-> Latest(Earlier(id)), seq |-> 0]
            /\ \A i \in 2..Len(recv[id]) : recv[id][i].seq > subAt[id]

C1_Witness ==
    \E id \in DOMAIN chans :
        /\ Len(Earlier(id)) >= 2
        /\ Cardinality(KeysOf(Earlier(id))) = 2
        /\ Len(recv[id]) >= 2

\* C2: the Snapshot maps every name broadcast so far to the value of the
\* most recent Broadcast carrying it and holds no other name, and a step
\* changes the value of a name only by a Broadcast that carries it and
\* removes none.
C2_SnapshotLatest ==
    /\ [](last = Latest(bhist))
    /\ [][\A k \in DOMAIN last :
            /\ k \in DOMAIN last'
            /\ last'[k] # last[k] =>
                  /\ Len(bhist') = Len(bhist) + 1
                  /\ k \in DOMAIN bhist'[Len(bhist')]]_vars

C2_Witness ==
    /\ Len(bhist) = 3
    /\ bhist[1] = [rpm |-> 1]
    /\ bhist[2] = [tps |-> 1]
    /\ bhist[3] = [rpm |-> 2, tps |-> 2]
    /\ last = [rpm |-> 2, tps |-> 2]

\* C3: a Broadcast leaves a mailbox that holds 16 items as it is, merges its
\* update into the Snapshot all the same, and appends the update to the
\* mailbox of every other subscriber, which has room.
C3_FullMailboxDrops ==
    [][Len(bhist') = Len(bhist) + 1 =>
        LET s == bhist'[Len(bhist')] IN
        /\ \A k \in DOMAIN s : k \in DOMAIN last' /\ last'[k] = s[k]
        /\ \A id \in subs :
              IF Len(chans[id].buf) = 16
              THEN chans'[id] = chans[id]
              ELSE chans'[id].buf =
                      Append(chans[id].buf, [m |-> s, seq |-> Len(bhist')])]_vars

C3_Witness ==
    \E a, b \in subs :
        /\ Len(chans[a].buf) = 16
        /\ chans[a].buf[16].seq < Len(bhist)
        /\ chans[b].buf # <<>>
        /\ chans[b].buf[Len(chans[b].buf)].seq = Len(bhist)
        /\ last[RampKey(Len(bhist))] = Len(bhist)

\* C4: once a subscription is cancelled it stays closed and out of the
\* subscriber set, no step adds an item to its mailbox (items only move, in
\* order, from pending to received), a receive on it never blocks, and the
\* receiver sees the closure only when every pending item has been taken.
C4_CancelStops ==
    /\ [][\A id \in DOMAIN chans : chans[id].closed =>
            /\ chans'[id].closed
            /\ id \notin subs'
            /\ recv'[id] \o chans'[id].buf = recv[id] \o chans[id].buf]_vars
    /\ [](\A id \in DOMAIN chans :
            /\ sawClosed[id] => chans[id].closed /\ chans[id].buf = <<>>
            /\ (chans[id].closed /\ ~sawClosed[id]) =>
                  ENABLED (Receive(id) \/ ReceiveClosed(id)))

C4_Witness ==
    \E id \in DOMAIN chans :
        /\ sawClosed[id]
        /\ Len(recv[id]) >= 2
        /\ subAt[id] < Len(bhist)
        /\ recv[id][Len(recv[id])].seq < Len(bhist)

\* C5: under every interleaving of cancel calls, repeated ones included,
\* with Broadcast and Subscribe calls, no value is sent on a closed channel
\* and no channel is closed twice: the hub never panics.
C5_NoPanic == ~panicked

C5_Witness ==
    \E id \in DOMAIN chans :
        /\ again[id]
        /\ subAt[id] < Len(bhist)
        /\ \A i \in 1..Len(Delivered(id)) : Delivered(id)[i].seq < Len(bhist)
        /\ subs # {}

\* the updates delivered to id, without its initial snapshot
Updates(id) ==
    IF Delivered(id) # <<>> /\ Delivered(id)[1].seq = 0
    THEN Tail(Delivered(id))
    ELSE Delivered(id)

\* C6: the updates delivered to a subscriber after its initial snapshot are
\* broadcasts made after it subscribed, each with the map of that Broadcast,
\* in broadcast order and none twice.
C6_UpdatesInOrder ==
    \A id \in DOMAIN chans :
        LET u == Updates(id) IN
        /\ \A i \in 1..Len(u) :
              /\ u[i].seq \in (subAt[id] + 1)..Len(bhist)
              /\ u[i].m = bhist[u[i].seq]
        /\ \A i, j \in 1..Len(u) : i < j => u[i].seq < u[j].seq

C6_Witness ==
    \E id \in DOMAIN chans :
        LET u == Updates(id) IN
        /\ subAt[id] >= 1
        /\ Len(recv[id]) >= 3
        /\ \E i \in 1..(Len(u) - 1) : u[i + 1].seq > u[i].seq + 1

(***************************************************************************)
(* Properties of the frame decoder.                                        *)
(***************************************************************************)

\* the calls of readOneFrame that returned a Frame
Accepted == SelectSeq(calls, LAMBDA c : c.err = "nil")

\* the Frames readOneFrame has returned so far, in order
Frames == [i \in 1..Len(Accepted) |-> Accepted[i].fr]

\* the first i pieces of the stream are frames as sendFrame writes them,
\* with no stray byte before any of them
Aligned(i) ==
    /\ i <= Len(units)
    /\ \A j \in 1..i : units[j].kind = "frame" /\ units[j].g = <<>>

\* the 7 header bytes of the input that call c of readOneFrame read
HdrOf(c) == SubSeq(input, c.from + 2, c.from + 8)

\* C7: when the stream begins with frames written by sendFrame (timestamp
\* little-endian, identifier big-endian, length, payload of 0..64 bytes,
\* CRC-8), the i-th call of readOneFrame returns no error and a Frame with
\* exactly the timestamp, identifier and payload of the i-th frame sent,
\* and consumes exactly its bytes.
C7_RoundTrip ==
    \A i \in 1..Len(calls) :
        Aligned(i) =>
            /\ calls[i].err = "nil"
            /\ calls[i].fr = units[i].fr
            /\ calls[i].fr.Millis = units[i].fr.Millis
            /\ calls[i].fr.DID = units[i].fr.DID
            /\ calls[i].fr.Data = units[i].fr.Data
            /\ calls[i].pos - calls[i].from = Len(units[i].fr.Data) + 10

C7_Witness ==
    /\ rbDone
    /\ Aligned(2)
    /\ units[1].fr = FrameE
    /\ units[2].fr = FrameD
    /\ Len(calls) = 3
    /\ calls[1].fr = FrameE
    /\ Len(calls[1].fr.Data) = 64
    /\ calls[2].fr = FrameD
    /\ calls[2].fr.Data = <<>>
    /\ calls[3].err = "EOF"

\* C8: for a stream made of stray bytes, a valid frame F1, more stray bytes
\* and a second valid frame F2, the calls of readOneFrame up to the end of
\* the stream return exactly two Frames, F1 then F2.
C8_Resync ==
    (/\ rbDone
     /\ Len(units) = 2
     /\ units[1].kind = "frame"
     /\ units[2].kind = "frame")
        => Frames = <<units[1].fr, units[2].fr>>

\* C9: readOneFrame never returns a Frame whose trailing byte differs from
\* the CRC-8 computed over timestamp, identifier, length and payload; a
\* frame with a wrong trailing byte is dropped, with nothing broadcast or
\* written to the raw log for it, and the valid frame after it is produced.
C9_CrcRejection ==
    /\ \A k \in 1..Len(calls) :
          calls[k].err = "nil" =>
              input[calls[k].pos - 1] = frameCrc(HdrOf(calls[k]), calls[k].fr.Data)
    /\ (/\ rbDone
        /\ Len(units) = 2
        /\ units[1].kind = "badcrc" /\ units[1].g = <<>>
        /\ units[2].kind = "frame" /\ units[2].g = <<>>)
          => /\ Frames = <<units[2].fr>>
             /\ Len(bhist) = Len(Samples(units[2].fr.DID, units[2].fr.Data, 0))
             /\ (rawOn /\ ~rawErr) => rawLog = WireOf[units[2].fr]

\* C10: readOneFrame never returns a Frame whose payload is longer than 64
\* bytes; a header whose length byte is greater than 64 yields the framing
\* error and no Frame; every Frame returned has a payload whose length is
\* exactly the length byte of its header.
C10_LengthBound ==
    \A k \in 1..Len(calls) :
        /\ Len(calls[k].fr.Data) <= 64
        /\ (calls[k].from > 0 /\ calls[k].from + 8 <= Len(input)) =>
              /\ input[calls[k].from + 8] > 64 =>
                    calls[k].err = "bad len" /\ calls[k].fr = ZeroFrame
              /\ calls[k].err = "nil" =>
                    Len(calls[k].fr.Data) = input[calls[k].from + 8]
        /\ calls[k].err = "nil" =>
              calls[k].from > 0 /\ calls[k].from + 8 <= Len(input)

C10_Witness ==
    \E k \in 1..Len(calls) :
        /\ calls[k].err = "bad len"
        /\ input[calls[k].from + 8] = 65
        /\ k + 1 <= Len(calls)
        /\ calls[k + 1].err = "nil"
        /\ Len(calls[k + 1].fr.Data) = 64
        /\ input[calls[k + 1].from + 8] = 64

(***************************************************************************)
(* Properties of the drivers.                                              *)
(***************************************************************************)

\* readBinary is the driver (the replayer otherwise)
Live == rp.at = "idle"

\* the driver has come to the end of its input at least once: readBinary
\* has returned, or a playOnce call has
Finished == IF Live THEN rbDone ELSE rp.rets # <<>>

\* frame fr was handed to the interpreter
Handed(fr) ==
    \E i \in 1..Len(handed) :
        handed[i].did = fr.DID /\ handed[i].data = fr.Data

\* C11: a header with a length byte above 64 is recovered from in both
\* drivers: neither readBinary nor playOnce returns an error because of it,
\* and the valid frame that follows it is interpreted.
C11_FramingErrorRecovered ==
    /\ \A i \in 1..Len(rp.rets) : rp.rets[i] # "bad len"
    /\ (/\ Finished
        /\ flags.SkipFrames = 0
        /\ Len(units) = 2
        /\ units[1].kind = "badlen"
        /\ units[2].kind = "frame")
          => Handed(units[2].fr)

\* C12: when the input ends in the middle of a frame, after the magic, no
\* Frame is emitted for the partial bytes and readOneFrame signals the same
\* end of stream as for a clean end; playOnce returns nil, not an error.
C12_TruncatedIsEndOfStream ==
    /\ \A k \in 1..Len(calls) :
          (calls[k].from > 0 /\ calls[k].err \notin {"nil", "bad len"}) =>
              calls[k].err = "EOF" /\ calls[k].fr = ZeroFrame
    /\ \A i \in 1..Len(rp.rets) : rp.rets[i] # "ErrUnexpectedEOF"

\* the identifier and payload of the frames frs from the k-th on, as the
\* interpreter is given them
AsHanded(frs, k) ==
    [i \in 1..(IF Len(frs) >= k THEN Len(frs) - k + 1 ELSE 0) |->
        [did |-> frs[i + k - 1].DID, data |-> frs[i + k - 1].Data]]

\* the identifier and payload of every call of the interpreter so far
HandedFrames ==
    [i \in 1..Len(handed) |-> [did |-> handed[i].did, data |-> handed[i].data]]

\* C13: decoding a finite input terminates. A readOneFrame call that
\* reaches the end of the stream while scanning for the magic reports
\* end-of-stream and is the driver's last call on that stream: readBinary
\* returns, playOnce returns nil, and every frame decoded before (after the
\* first SkipFrames ones in replay) has been handed to the interpreter, in
\* order; readBinary returns only on end-of-stream. Under fair scheduling
\* of the driver, the driver eventually returns.
C13_Terminates ==
    /\ [][(Len(calls') = Len(calls) + 1 /\ calls'[Len(calls')].from = 0) =>
            /\ calls'[Len(calls')].err = "EOF"
            /\ pos' = Len(input) + 1
            /\ IF Live THEN rbDone' ELSE rp'.rets = Append(rp.rets, "nil")]_vars
    /\ [][(~rbDone /\ rbDone') =>
            /\ calls'[Len(calls')].err = "EOF"
            /\ HandedFrames' = AsHanded(Frames', 1)]_vars
    /\ [][(rp.rets = <<>> /\ rp'.rets = <<"nil">>) =>
            /\ calls'[Len(calls')].err = "EOF"
            /\ HandedFrames' = AsHanded(Frames', flags.SkipFrames + 1)]_vars
    /\ <>Finished

C13_Witness ==
    /\ rp.rets = <<"nil", "nil">>
    /\ flags.SkipFrames = 1
    /\ Len(handed) = 2
    /\ Len(calls) = 6
    /\ calls[6].err = "EOF"
    /\ calls[6].from = 0

(***************************************************************************)
(* More properties of the hub.                                             *)
(***************************************************************************)

\* the maps delivered to subscription id so far, in order
DeliveredMaps(id) == [i \in 1..Len(Delivered(id)) |-> Delivered(id)[i].m]

\* a Broadcast made after id subscribed was not delivered to it
Dropped(id) ==
    \E n \in (subAt[id] + 1)..Len(bhist) :
        \A i \in 1..Len(Delivered(id)) : Delivered(id)[i].seq # n

\* C14: a subscriber that lost an update to a full mailbox does not stay
\* stale: once it has drained its mailbox, the next Broadcast leaves the
\* values delivered to it in agreement with the Snapshot for every name.
C14_NoStaleForever ==
    [][\A id \in subs :
          (/\ Dropped(id)
           /\ chans[id].buf = <<>>
           /\ Len(bhist') = Len(bhist) + 1)
              => Latest(DeliveredMaps(id))' = last']_vars

IsRounded(v, x, y) == 2 * y * v - y <= 2 * x /\ 2 * x < 2 * y * v + y

\* the big-endian unsigned value of the first two bytes of payload d
Raw16(d) == d[1] * 256 + d[2]

\* C17: for identifier 0x0076 and a payload of at least 2 bytes, one map is
\* broadcast, and its tps is min(raw, 1023) * 100 / 1023 rounded to the
\* nearest integer, raw being the big-endian value of the first two bytes:
\* 0 for raw 0, 100 for every raw >= 1023, within 0..100 always.
C17_TpsScaling ==
    \A i \in 1..Len(handed) :
        (handed[i].did = 118 /\ Len(handed[i].data) >= 2) =>
            LET raw == Raw16(handed[i].data)
                clamped == IF raw > 1023 THEN 1023 ELSE raw
            IN  /\ Len(bhist) = 1
                /\ "tps" \in DOMAIN bhist[1]
                /\ IsRounded(bhist[1].tps, clamped * 100, 1023)
                /\ bhist[1].tps \in 0..100
                /\ raw = 0 => bhist[1].tps = 0
                /\ raw >= 1023 => bhist[1].tps = 100

C17_Witness ==
    /\ Len(handed) = 1
    /\ handed[1].did = 118
    /\ handed[1].data = <<255, 255>>
    /\ Len(bhist) = 1
    /\ bhist[1].tps = 100

\* C18: for identifier 0x0009 one map is broadcast; its coolant is the
\* big-endian value of the first two payload bytes minus 40 when the payload
\* has at least 2 bytes, and the payload byte minus 40 when it has exactly
\* one: 0 for payload 28 (hex), 10 for payload 00 32 (hex).
C18_CoolantOffset ==
    \A i \in 1..Len(handed) :
        (handed[i].did = 9 /\ Len(handed[i].data) >= 1) =>
            LET d == handed[i].data IN
            /\ Len(bhist) = 1
            /\ "coolant" \in DOMAIN bhist[1]
            /\ Len(d) >= 2 => bhist[1].coolant = Raw16(d) - 40
            /\ Len(d) = 1 => bhist[1].coolant = d[1] - 40
            /\ d = <<40>> => bhist[1].coolant = 0
            /\ d = <<0, 50>> => bhist[1].coolant = 10

C18_Witness ==
    /\ Len(handed) = 1
    /\ handed[1].did = 9
    /\ handed[1].data = <<0, 50>>
    /\ Len(bhist) = 1
    /\ bhist[1].coolant = 10

\* the interpreter has no rule for a: its identifier is not one of 0x0100,
\* 0x0001, 0x0070, 0x0076, 0x0009, or its payload is shorter than the rule
\* needs
Ignored(a) ==
    \/ a.did \notin {256, 1, 112, 118, 9}
    \/ a.did \in {256, 118} /\ Len(a.data) < 2
    \/ a.did \in {1, 112, 9} /\ Len(a.data) = 0

\* C19: a call of the interpreter with an unknown identifier or a payload
\* too short for its rule makes no Broadcast: the Snapshot, every mailbox
\* and the list of broadcasts stay as they are, and nothing panics.
C19_IgnoredSilently ==
    [][(Len(handed') = Len(handed) + 1 /\ Ignored(handed'[Len(handed')])) =>
          /\ last' = last
          /\ chans' = chans
          /\ bhist' = bhist
          /\ panicked' = panicked]_vars

C19_Witness ==
    /\ Len(handed) = 2
    /\ handed[2].did = 256
    /\ handed[2].data = <<40>>
    /\ Len(bhist) = 1
    /\ DOMAIN last # {}
    /\ \E id \in subs : chans[id].buf # <<>>

\* the sensor name of a known identifier
NameOf(did) ==
    CASE did = 256 -> "rpm"
      [] did = 1 -> "throttle"
      [] did = 112 -> "grip"
      [] did = 118 -> "tps"
      [] did = 9 -> "coolant"
      [] OTHER -> "none"

\* C20: every Broadcast the interpreter makes carries exactly two keys, the
\* sample under its sensor name and "timestamp" with the timestamp passed
\* in with the frame; the "timestamp" of the Snapshot is always that of the
\* most recent sample broadcast.
C20_SampleAndTimestamp ==
    /\ [][Len(bhist') = Len(bhist) + 1 =>
            LET s == bhist'[Len(bhist')]
                a == handed'[Len(handed')]
            IN  /\ Len(handed') = Len(handed) + 1
                /\ DOMAIN s = {NameOf(a.did), "timestamp"}
                /\ Cardinality(DOMAIN s) = 2
                /\ s.timestamp = a.ts
                /\ last'.timestamp = a.ts]_vars
    /\ [](bhist # <<>> =>
            /\ "timestamp" \in DOMAIN last
            /\ last.timestamp = bhist[Len(bhist)].timestamp)

C20_Witness ==
    /\ Len(bhist) = 2
    /\ DOMAIN bhist[1] = {"rpm", "timestamp"}
    /\ bhist[1].timestamp = 7
    /\ DOMAIN bhist[2] = {"coolant", "timestamp"}
    /\ bhist[2].timestamp = 3
    /\ last.timestamp = 3
    /\ DOMAIN last = {"rpm", "coolant", "timestamp"}

(***************************************************************************)
(* Properties of the raw log.                                              *)
(***************************************************************************)

\* the bytes of the input, magic through CRC byte, that call c of
\* readOneFrame decoded its Frame from
SpanOf(c) == SubSeq(input, c.from, c.pos - 1)

\* C21: every record readBinary appends to the raw log is byte for byte the
\* span of the input, from the magic through the trailing CRC byte, that
\* the frame was decoded from.
C21_RawRecordVerbatim ==
    [][rawLog' # rawLog =>
          rawLog' = rawLog \o SpanOf(calls'[Len(calls')])]_vars

\* the Frames the frame decoder returns when it is run over the bytes s
\* from byte p until its first error
RECURSIVE DecodeFrom(_, _)
DecodeFrom(s, p) ==
    LET r == readOneFrame(s, p) IN
    IF r.err # "nil" THEN <<>> ELSE <<r.fr>> \o DecodeFrom(s, r.pos)

\* the last error of a run of the frame decoder over s from byte p
RECURSIVE DecodeEnd(_, _)
DecodeEnd(s, p) ==
    LET r == readOneFrame(s, p) IN
    IF r.err # "nil" THEN r.err ELSE DecodeEnd(s, r.pos)

\* C22: while every raw write has succeeded, running the frame decoder over
\* the raw log returns exactly the Frames readBinary has decoded and handed
\* to the interpreter, in the same order, and then the end of the file.
C22_RawLogReplayable ==
    (rawOn /\ ~rawErr) =>
        /\ DecodeFrom(rawLog, 1) = Frames
        /\ DecodeEnd(rawLog, 1) = "EOF"
        /\ Len(handed) = Len(Frames)
        /\ \A i \in 1..Len(Frames) :
              /\ handed[i].did = Frames[i].DID
              /\ handed[i].data = Frames[i].Data

C22_Witness ==
    /\ rbDone
    /\ rawOn
    /\ ~rawErr
    /\ Len(Frames) = 2
    /\ Frames[1] # Frames[2]
    /\ rawLog # input
    /\ DecodeFrom(rawLog, 1) = Frames

(***************************************************************************)
(* Properties of the replayer.                                             *)
(***************************************************************************)

\* the Frames of the calls cs from the i-th on that come after the first k
\* Frames of their pass over the file, n Frames of the current pass being
\* counted already; a pass ends with the call that returns an error
RECURSIVE EmittedFrom(_, _, _, _)
EmittedFrom(cs, i, n, k) ==
    IF i > Len(cs) THEN <<>>
    ELSE IF cs[i].err # "nil" THEN EmittedFrom(cs, i + 1, 0, k)
    ELSE IF n < k THEN EmittedFrom(cs, i + 1, n + 1, k)
    ELSE <<cs[i].fr>> \o EmittedFrom(cs, i + 1, n + 1, k)

\* the Frames of the replay so far that are not among the first SkipFrames
\* of their pass
Emitted == EmittedFrom(calls, 1, 0, flags.SkipFrames)

\* C23: in replay with SkipFrames = k, the first k frames decoded in each
\* pass are not handed to the interpreter, every frame after them is handed
\* to it exactly once and in file order, and nothing is handed over or
\* broadcast when the file holds at most k frames.
C23_SkipFrames ==
    ~Live =>
        /\ HandedFrames = AsHanded(Emitted, 1)
        /\ Len(DecodeFrom(input, 1)) <= flags.SkipFrames =>
              handed = <<>> /\ bhist = <<>>

C23_Witness ==
    /\ flags.SkipFrames = 1
    /\ flags.Loop
    /\ units = << [g |-> <<>>, kind |-> "frame", fr |-> FrameA, n |-> 0],
                  [g |-> <<>>, kind |-> "frame", fr |-> FrameB, n |-> 0] >>
    /\ rp.rets = <<"nil", "nil">>
    /\ HandedFrames = AsHanded(<<FrameB, FrameB>>, 1)
    /\ Len(bhist) = 2

\* C24: with Loop set, run calls playOnce again from the start of the file
\* every time playOnce comes back and returns only when the file cannot be
\* opened; with Loop unset, run returns nil after exactly one pass over a
\* file that could be opened.
C24_LoopUntilOpenFails ==
    /\ [][(rp.at = "run" /\ rp'.at = "playing") => pos' = 1]_vars
    /\ [](~Live =>
            /\ (rp.at = "returned" /\ flags.Loop) => rp.err = "open"
            /\ (rp.at = "returned" /\ ~flags.Loop /\ rp.err # "open") =>
                  rp.err = "nil" /\ Len(rp.rets) = 1
            /\ (rp.at = "run" /\ rp.rets # <<>>) =>
                  flags.Loop /\ rp.rets[Len(rp.rets)] = "nil")

\* the index of the last call in cs that returned an error, 0 if none
LastError(cs) ==
    IF \A i \in 1..Len(cs) : cs[i].err = "nil" THEN 0
    ELSE CHOOSE i \in 1..Len(cs) :
             /\ cs[i].err # "nil"
             /\ \A j \in (i + 1)..Len(cs) : cs[j].err = "nil"

\* the timestamps of the frames of the current pass in cs that are not
\* among its first k
EmittedMillis(cs, k) ==
    LET first == LastError(cs) + k + 1 IN
    [i \in 1..(IF Len(cs) >= first THEN Len(cs) - first + 1 ELSE 0) |->
        cs[first + i - 1].fr.Millis]

\* the delay, in milliseconds as num / den, due before the last of the
\* frames stamped ms at speed v
Delay(ms, v) ==
    IF v > 0 /\ Len(ms) >= 2 /\ Less32(ms[Len(ms) - 1], ms[Len(ms)])
    THEN <<[num |-> Sub32(ms[Len(ms)], ms[Len(ms) - 1]), den |-> v]>>
    ELSE <<>>

\* C25: with Speed > 0 the delay before a frame is broadcast is its
\* timestamp minus that of the frame emitted before it in the pass, in
\* milliseconds and divided by Speed, when that difference is positive and
\* none otherwise; there is none before the first emitted frame, skipped
\* frames count for nothing, and with Speed = 0 there is never a delay.
C25_Pacing ==
    /\ [][rp'.sleeps # rp.sleeps =>
            /\ Len(rp'.sleeps) = Len(rp.sleeps) + 1
            /\ Len(handed') = Len(handed) + 1
            /\ rp'.sleeps[Len(rp'.sleeps)] =
                  Delay(EmittedMillis(calls', flags.SkipFrames), flags.Speed)]_vars
    /\ [][handed' # handed => (Live \/ rp'.sleeps # rp.sleeps)]_vars
    /\ [](flags.Speed = 0 => \A i \in 1..Len(rp.sleeps) : rp.sleeps[i] = <<>>)

C25_Witness ==
    /\ flags = [Speed |-> 4, Loop |-> FALSE, SkipFrames |-> 0]
    /\ Frames = <<FrameD, FrameA>>
    /\ rp.sleeps = << <<>>, <<[num |-> U32(258, 771), den |-> 4]>> >>

\* the uint32 with the value of the integer n
AsU32(n) == U32(n \div 65536, n % 65536)

\* C26: the timestamp handed to the interpreter with a frame is the wall
\* clock time of the decode in readBinary, and the timestamp embedded in
\* the frame in playOnce.
C26_TimestampBySource ==
    [][Len(handed') = Len(handed) + 1 =>
          IF Live
          THEN handed'[Len(handed')].ts = now
          ELSE AsU32(handed'[Len(handed')].ts) =
                   calls'[Len(calls')].fr.Millis]_vars

(***************************************************************************)
(* Properties of the text source.                                          *)
(***************************************************************************)

\* the call of the interpreter line l is to lead to, or none
Want(l) == (CHOOSE c \in TextCases : c.line = l).want

\* the calls of the interpreter the first n lines of ls are to lead to
RECURSIVE WantedOf(_, _)
WantedOf(ls, n) ==
    IF n = 0 THEN <<>> ELSE WantedOf(ls, n - 1) \o Want(ls[n])

\* the broadcasts the first n calls hs of the interpreter make
RECURSIVE BroadcastsOf(_, _)
BroadcastsOf(hs, n) ==
    IF n = 0 THEN <<>>
    ELSE BroadcastsOf(hs, n - 1) \o Samples(hs[n].did, hs[n].data, hs[n].ts)

C28_HandlerUnsubscribes ==
    /\ \A id \in SubIds :
          (id \in DOMAIN ctx /\ ctx[id]) ~>
              (/\ id \in DOMAIN hpc
               /\ hpc[id] = "returned"
               /\ id \notin subs
               /\ chans[id].closed)
    /\ [](\A id \in DOMAIN hpc :
            hpc[id] = "returned" => id \notin subs /\ chans[id].closed)
    /\ [](~panicked)

\* a handler returned on its cancelled context with updates still waiting
\* in its mailbox, while another handler goes on being served
C28_Witness ==
    /\ DOMAIN hpc = {0, 1}
    /\ ctx[0]
    /\ hpc[0] = "returned"
    /\ 0 \notin subs
    /\ chans[0].closed
    /\ chans[0].buf # <<>>
    /\ hpc[1] = "serving"
    /\ 1 \in subs
    /\ recv[1] # <<>>

(***************************************************************************)
(* Properties of the CRC.                                                  *)
(***************************************************************************)

\* the remainder of the polynomial n, of degree at most bit, divided by
\* x^8 + x^2 + x + 1 (0x107) over GF(2)
RECURSIVE PolyMod(_, _)
PolyMod(n, bit) ==
    IF bit < 8 THEN n
    ELSE PolyMod(IF (n \div 2^bit) % 2 = 1
                 THEN Xor(n, 263 * 2^(bit - 8))
                 ELSE n, bit - 1)

\* one step of CRC-8 with polynomial 0x07, most significant bit first, no
\* reflection and no final XOR: (crc ^ b) * x^8 modulo the polynomial
Crc8Step(crc, b) == PolyMod(Xor(crc, b) * 256, 15)

\* the steps folded over the bytes of p from left to right
RECURSIVE Crc8Fold(_, _)
Crc8Fold(crc, p) ==
    IF p = <<>> THEN crc ELSE Crc8Fold(Crc8Step(crc, Head(p)), Tail(p))

\* C29: crc8Update(crc, b) is one step of CRC-8 with polynomial 0x07,
\* MSB-first, without reflection or final XOR, for all 256 x 256 inputs,
\* and stays within 0..255; crc8UpdateBuf folds it over the bytes from left
\* to right; the firmware's crc8_ccitt_update and crc8_ccitt_buf compute
\* the same values, so both sides compute the same checksum for a frame.
C29_Crc8 ==
    /\ calc.op = "updated" =>
          /\ calc.go = Crc8Step(calc.crc, calc.b)
          /\ calc.go \in 0..255
          /\ calc.fw = calc.go
    /\ calc.op = "folded" =>
          /\ calc.go = Crc8Fold(calc.crc, calc.p)
          /\ calc.go \in 0..255
          /\ calc.fw = calc.go
    /\ calc.op = "framed" => calc.fw = calc.go

\* the check value of CRC-8: 0xF4 for "123456789"
C29_Witness ==
    /\ calc.op = "folded"
    /\ calc.crc = 0
    /\ calc.p = <<49, 50, 51, 52, 53, 54, 55, 56, 57>>
    /\ calc.go = 244
    /\ calc.fw = 244

(***************************************************************************)
(* More properties of the frame decoder.                                   *)
(***************************************************************************)

\* the first position from p on where s holds 0xAA immediately followed by
\* 0x55, or 0 when there is none
FirstMagic(s, p) ==
    LET at == {q \in p..(Len(s) - 1) : s[q] = 170 /\ s[q + 1] = 85} IN
    IF at = {} THEN 0 ELSE CHOOSE q \in at : \A r \in at : q <= r

\* C30: the magic scan of readOneFrame stops at the first position of its
\* input where 0xAA is immediately followed by 0x55: no occurrence of the
\* pair is passed over, so a frame directly preceded by a stray 0xAA byte
\* (AA AA 55 ...) is found.
C30_MagicScan ==
    \A k \in 1..Len(calls) :
        calls[k].from =
            FirstMagic(input, IF k = 1 THEN 1 ELSE calls[k - 1].pos)

(***************************************************************************)
(* Properties of the interpreter across revisions.                         *)
(***************************************************************************)

\* the reading a tps payload of two bytes or more is scaled from
TpsRaw(d) == IF U16be(d) > 1023 THEN 1023 ELSE U16be(d)

\* C31: the two tps scalings agree. For every raw in 0..1023 the rounded
\* round(raw/1023*100) of BroadcastParsedSensorData equals the integer
\* (raw*100+511)/1023 of broadcastParsedSensorData, so both revisions
\* broadcast the same tps value for every payload.
C31_TpsFormsAgree ==
    (calc.op = "sampled" /\ calc.did = TPS_DID) =>
        /\ calc.cur = calc.old
        /\ Len(calc.data) >= 2 =>
              /\ RoundPct(TpsRaw(calc.data), 1023) = IntPct(TpsRaw(calc.data))
              /\ calc.cur = <<[tps |-> IntPct(TpsRaw(calc.data)),
                               timestamp |-> calc.ts]>>
              /\ calc.old = <<[tps |-> RoundPct(TpsRaw(calc.data), 1023),
                               timestamp |-> calc.ts]>>

\* raw 516 of 1023 is 50.4 percent
C31_Witness ==
    /\ calc.op = "sampled"
    /\ calc.did = TPS_DID
    /\ calc.data = <<2, 4>>
    /\ calc.cur = <<[tps |-> 50, timestamp |-> 7]>>
    /\ calc.old = calc.cur

\* the name a grip or throttle sample is broadcast under
ByteName(did) == IF did = GRIP_DID THEN "grip" ELSE "throttle"

\* m is one map whose value under the name of did is the percentage of 255
\* of the last byte of d, rounded
IsPercentOfLast(m, did, d) ==
    /\ Len(m) = 1
    /\ ByteName(did) \in DOMAIN m[1]
    /\ IsRounded(m[1][ByteName(did)], d[Len(d)] * 100, 255)
    /\ m[1][ByteName(did)] \in 0..100
    /\ d[Len(d)] = 0 => m[1][ByteName(did)] = 0
    /\ d[Len(d)] = 255 => m[1][ByteName(did)] = 100

\* C32: for grip (0x0070) and throttle (0x0001) with a non-empty payload
\* the value broadcast is the last payload byte as a percentage of 255,
\* rounded, whatever the length of the payload: 0 for byte 0, 100 for
\* byte 255, always within 0..100, in BroadcastParsedSensorData and in
\* main.go's broadcastParsedSensorData.
C32_LastBytePercent ==
    (/\ calc.op = "sampled"
     /\ calc.did \in {GRIP_DID, THROTTLE_DID}
     /\ calc.data # <<>>)
        => /\ IsPercentOfLast(calc.cur, calc.did, calc.data)
           /\ IsPercentOfLast(calc.old, calc.did, calc.data)

(***************************************************************************)
(* Properties of the firmware.                                             *)
(***************************************************************************)

\* the last poll before the i-th of the same index for which a frame was
\* sent, 0 when there is none
LastSentBefore(i) ==
    LET S == {j \in 1..(i - 1) :
                 polls[j].idx = polls[i].idx /\ polls[j].sent}
    IN  IF S = {} THEN 0 ELSE CHOOSE j \in S : \A k \in S : k <= j

\* C33: for every identifier polled, pollOne sends a frame on the first
\* read that returns a payload, and on a later one exactly when the payload
\* differs, in length or in any byte, from the payload last sent for that
\* identifier
C33_ChangeOnly ==
    \A i \in 1..Len(polls) :
        polls[i].sent <=>
            \/ LastSentBefore(i) = 0
            \/ polls[LastSentBefore(i)].data # polls[i].data

\* the polls for which a frame was sent
IsSent(p) == p.sent

SentPolls == SelectSeq(polls, IsSent)

\* the length byte of a frame on the serial line
LenByte(fr) == fr[9]

\* C40: every frame the firmware writes through pollOne and sendFrame has
\* a length byte between 1 and 61, carries that many payload bytes, the
\* ones read, and passes the length check of the decoder
C40_FrameLength ==
    /\ Len(serial) = Len(SentPolls)
    /\ \A i \in 1..Len(serial) :
          /\ LenByte(serial[i]) \in 1..61
          /\ Len(serial[i]) = 2 + 7 + LenByte(serial[i]) + 1
          /\ SubSeq(serial[i], 10, Len(serial[i]) - 1) = SentPolls[i].data
          /\ ~BadLen(LenByte(serial[i]))

\* frames of 61 payload bytes and of one were written, and a response too
\* long for the buffer was refused
C40_Witness ==
    /\ \E i \in 1..Len(serial) : LenByte(serial[i]) = 61
    /\ \E i \in 1..Len(serial) : LenByte(serial[i]) = 1
    /\ millis > Len(polls) + 1

\* the number of bytes of the records readBinary builds for the frames
\* lo..hi handed to the interpreter
RECURSIVE RecordBytes(_, _)
RecordBytes(lo, hi) ==
    IF lo > hi THEN 0
    ELSE IF lo = hi THEN 2 + 7 + Len(handed[lo].data) + 1
    ELSE LET mid == (lo + hi) \div 2
         IN  RecordBytes(lo, mid) + RecordBytes(mid + 1, hi)

\* the calls of readOneFrame that returned a frame
IsFrame(c) == c.err = "nil"

\* C34: with a raw writer, the frames written are the first rawCount frames
\* read, what has been flushed is those up to the last multiple of
\* WRITE_EVERY_N_FRAMES (100) among them, so fewer than 100 written frames
\* are unflushed; a frame whose write fails is not counted, moves no flush
\* and is broadcast all the same
C34_FlushEvery100 ==
    rawOn =>
        /\ Len(handed) = Len(SelectSeq(calls, IsFrame))
        /\ Len(bhist) = Len(handed)
        /\ rawCount <= Len(handed)
        /\ rawErr <=> rawCount < Len(handed)
        /\ Len(rawLog) = RecordBytes(1, rawCount)
        /\ rawFlushed =
              RecordBytes(1, rawCount - (rawCount % WRITE_EVERY_N_FRAMES))
        /\ Len(rawLog) - rawFlushed =
              RecordBytes(rawCount - (rawCount % 100) + 1, rawCount)

\* the writer was flushed at the hundredth frame written, a frame was
\* written after that, and the write of the next one failed
C34_Witness ==
    /\ rawOn
    /\ rawCount = WRITE_EVERY_N_FRAMES + 1
    /\ rawFlushed > 0
    /\ rawFlushed < Len(rawLog)
    /\ rawErr
    /\ Len(handed) = rawCount + 1

(***************************************************************************)
(* More properties of the hub.                                             *)
(***************************************************************************)

\* C35: no mailbox ever holds more than 16 items, and a Subscribe always
\* completes: the subscription is registered with an open mailbox that holds
\* one copy of the Snapshot when the Snapshot is non-empty and nothing when
\* it is empty, and no other mailbox changes
C35_MailboxBound ==
    /\ [](\A id \in DOMAIN chans : Len(chans[id].buf) <= 16)
    /\ [][next' # next =>
            /\ next' = next + 1
            /\ next \in subs'
            /\ ~chans'[next].closed
            /\ ~panicked'
            /\ chans'[next].buf = IF DOMAIN last = {} THEN <<>>
                                  ELSE <<[m |-> last, seq |-> 0]>>
            /\ \A o \in DOMAIN chans : chans'[o] = chans[o]]_vars

\* one subscription was made on an empty Snapshot and got nothing, another
\* on a non-empty one, and the mailbox of that one is full
C35_Witness ==
    \E a, b \in DOMAIN chans :
        /\ subAt[a] = 0
        /\ Delivered(a) # <<>>
        /\ Delivered(a)[1].seq = 1
        /\ subAt[b] > 0
        /\ Delivered(b)[1].seq = 0
        /\ Len(chans[b].buf) = 16
        /\ Len(bhist) > subAt[b] + 16

\* C36: the subscriber set holds exactly the subscriptions made whose cancel
\* has not run, which are those whose mailbox is open; the ids handed out
\* are 0, 1, ... in turn, so no two subscriptions share one and none is
\* handed out again, not even after its cancellation
C36_SubscriberSet ==
    /\ [](/\ DOMAIN chans = 0..(next - 1)
          /\ subs = {id \in DOMAIN chans : ~chans[id].closed})
    /\ [][/\ DOMAIN chans \subseteq DOMAIN chans'
          /\ next' # next =>
                next \notin DOMAIN chans /\ DOMAIN chans' = DOMAIN chans \cup {next}
          /\ \A id \in DOMAIN chans :
                /\ chans[id].closed => chans'[id].closed
                /\ id \notin subs => id \notin subs'
                /\ subAt'[id] = subAt[id]]_vars

\* the first subscription was cancelled and a second one made after that
C36_Witness ==
    /\ next = 2
    /\ subs = {1}
    /\ chans[0].closed
    /\ ~chans[1].closed
    /\ again[0]
    /\ chans[1].buf # <<>>

\* the update of Broadcast n was delivered to id
Enqueued(id, n) ==
    \E i \in 1..Len(Delivered(id)) : Delivered(id)[i].seq = n

\* C37: for a subscription and a Broadcast, either the Broadcast came before
\* the Subscribe, and then it is part of the snapshot delivered first and is
\* not delivered as an update, or it came after, and then its update was
\* put in the mailbox when the subscription was registered and had room:
\* never both, never neither
C37_SubscribeAtomic ==
    /\ [](\A id \in DOMAIN chans :
            /\ KeysOf(Earlier(id)) # {} =>
                  /\ Delivered(id) # <<>>
                  /\ Delivered(id)[1] = [m |-> Latest(Earlier(id)), seq |-> 0]
            /\ \A n \in 1..subAt[id] : ~Enqueued(id, n)
            /\ \A i \in 2..Len(Delivered(id)) : Delivered(id)[i].seq # 0)
    /\ [][Len(bhist') = Len(bhist) + 1 =>
            \A id \in subs :
                Len(chans[id].buf) < 16 =>
                    /\ chans'[id].buf # <<>>
                    /\ chans'[id].buf[Len(chans'[id].buf)] =
                          [m |-> bhist'[Len(bhist')], seq |-> Len(bhist')]]_vars

\* a subscription made between two Broadcasts of the same name: it has
\* received the snapshot with the first and then the update of the second
C37_Witness ==
    \E id \in DOMAIN chans :
        /\ subAt[id] = 2
        /\ Len(recv[id]) = 2
        /\ recv[id][1] = [m |-> [rpm |-> 1, tps |-> 2], seq |-> 0]
        /\ recv[id][2] = [m |-> [rpm |-> 3], seq |-> 3]

\* what a receiver holds after it has merged, name by name and in the order
\* of receipt, the first n items it took from the mailbox
RECURSIVE Merged(_, _)
Merged(r, n) ==
    IF n = 0 THEN EmptyMap
    ELSE LET before == Merged(r, n - 1)
             m == r[n].m
         IN  [k \in (DOMAIN before) \cup (DOMAIN m) |->
                 IF k \in DOMAIN m THEN m[k] ELSE before[k]]

\* no update was dropped for id: every Broadcast since its Subscribe was
\* delivered to it
NoDrop(id) == \A n \in (subAt[id] + 1)..Len(bhist) : Enqueued(id, n)

\* C38: a subscriber that lost no update and has emptied its mailbox holds,
\* after merging what it received, exactly the Snapshot of the hub
C38_MergedIsSnapshot ==
    \A id \in subs :
        (NoDrop(id) /\ chans[id].buf = <<>>) =>
            Merged(recv[id], Len(recv[id])) = last

\* a subscriber has merged a snapshot of two names and two later updates
\* into the present Snapshot, while the other one has lost an update
C38_Witness ==
    \E a, b \in subs :
        /\ NoDrop(a)
        /\ chans[a].buf = <<>>
        /\ subAt[a] >= 2
        /\ Len(recv[a]) >= 3
        /\ recv[a][1].seq = 0
        /\ ~NoDrop(b)

(***************************************************************************)
(* Properties of the chart history.                                        *)
(***************************************************************************)

\* C39: every generateSVG call of the index handler is given a data slice
\* and a labels slice of the same length and reads no data[i] out of range,
\* whatever the producer is doing meanwhile
C39_HistoryInStep ==
    \A i \in 1..Len(svg) :
        /\ Len(svg[i].data) = Len(svg[i].labels)
        /\ ~svg[i].panics

=============================================================================
